---------------------------- MODULE Spec2Model ----------------------------
(***************************************************************************)
(* Model of the Mach-O signer of apple-codesign (macho_signing.rs):        *)
(* create_macho_with_signature (the rewriter) and MachOSigner              *)
(* (write_signed_binary, create_superblob, create_code_directory,          *)
(* create_special_blobs, estimate_embedded_signature_size).                *)
(*                                                                         *)
(* Byte buffers are sequences of atoms.  An atom [k, id, a, b] stands for  *)
(* the bytes [a, b) of a named byte string:                                *)
(*   k = "orig"  bytes of the input file of image id                       *)
(*   k = "zero"  NUL bytes                                                 *)
(*   k = "hdr"   a serialized Mach-O header, id = the header               *)
(*   k = "lc"    a serialized load command struct, id = the command        *)
(*   k = "sig"   a serialized SuperBlob, id = what it contains             *)
(* Buffers are kept normalised (no empty atom, adjacent ranges of the same *)
(* byte string merged), so equal buffers are equal byte strings.           *)
(***************************************************************************)
EXTENDS Integers, Sequences, FiniteSets, TLC

\* ---------------------------------------------------------------------
\* Program constants
\* ---------------------------------------------------------------------
SIG_ALIGN == 16
LINKEDIT_VM_ALIGN == 16384
PAGE_SIZE == 4096
CD_COMMON_SIZE == 1024
CMS_FIXED_SIZE == 4096
TST_SIZE == 8192
ESTIMATE_ALIGN == 1024
SIZEOF_LINKEDIT_DATA_COMMAND == 16
SIZEOF_SEGMENT_COMMAND_32 == 56
SIZEOF_SEGMENT_COMMAND_64 == 72
SIZEOF_HEADER_32 == 28
SIZEOF_HEADER_64 == 32

SEG_LINKEDIT == "__LINKEDIT"
SEG_PAGEZERO == "__PAGEZERO"
LC_CODE_SIGNATURE == "LC_CODE_SIGNATURE"
MH_EXECUTE == "MH_EXECUTE"
MH_DYLIB == "MH_DYLIB"

\* ---------------------------------------------------------------------
\* Byte buffers
\* ---------------------------------------------------------------------
Atom(k, id, a, b) == [k |-> k, id |-> id, a |-> a, b |-> b]

AtomLen(x) == x.b - x.a

RECURSIVE BufLen(_)
BufLen(buf) == IF buf = <<>> THEN 0 ELSE AtomLen(Head(buf)) + BufLen(Tail(buf))

\* Two atoms that are consecutive ranges of the same byte string.
Mergeable(x, y) ==
    /\ x.k = y.k
    /\ \/ x.k = "zero"
       \/ x.id = y.id /\ x.b = y.a

Merge(x, y) ==
    IF x.k = "zero" THEN Atom("zero", 0, 0, AtomLen(x) + AtomLen(y))
    ELSE Atom(x.k, x.id, x.a, y.b)

\* Vec::extend / Write::write_all onto the end of a buffer.
Append1(buf, x) ==
    IF AtomLen(x) = 0 THEN buf
    ELSE IF buf = <<>> THEN <<x>>
    ELSE LET last == buf[Len(buf)] IN
         IF Mergeable(last, x)
         THEN SubSeq(buf, 1, Len(buf) - 1) \o <<Merge(last, x)>>
         ELSE buf \o <<x>>

RECURSIVE WriteAll(_, _)
WriteAll(buf, bytes) ==
    IF bytes = <<>> THEN buf
    ELSE WriteAll(Append1(buf, Head(bytes)), Tail(bytes))

\* The bytes [from, to) of one atom, from and to relative to the atom.
SubAtom(x, from, to) ==
    IF x.k = "zero" THEN Atom("zero", 0, 0, to - from)
    ELSE Atom(x.k, x.id, x.a + from, x.a + to)

Max(x, y) == IF x >= y THEN x ELSE y
Min(x, y) == IF x <= y THEN x ELSE y

\* &buf[from..to]; the caller checks from <= to <= BufLen(buf).
RECURSIVE SliceBuf(_, _, _)
SliceBuf(buf, from, to) ==
    IF buf = <<>> \/ to <= 0 \/ from >= to THEN <<>>
    ELSE LET x == Head(buf)
             n == AtomLen(x)
             lo == Max(from, 0)
             hi == Min(to, n)
             rest == SliceBuf(Tail(buf), from - n, to - n)
         IN IF lo < hi THEN WriteAll(<<SubAtom(x, lo, hi)>>, rest) ELSE rest

\* Rust panics on a slice whose start is past its end or whose end is past
\* the data.
SliceOk(buf, from, to) == from <= to /\ to <= BufLen(buf)

Zeros(n) == IF n = 0 THEN <<>> ELSE <<Atom("zero", 0, 0, n)>>

\* ---------------------------------------------------------------------
\* Load commands and the Mach-O structural view (MachOBinary)
\* ---------------------------------------------------------------------
NoCommand == [cmd |-> "none"]

\* A segment_command / segment_command_64 followed by nsects section headers.
SegmentCommand(bits, name, fileoff, filesize, vmsize, nsects, exec) ==
    [cmd |-> IF bits = 64 THEN "LC_SEGMENT_64" ELSE "LC_SEGMENT",
     cmdsize |-> IF bits = 64 THEN SIZEOF_SEGMENT_COMMAND_64 + 80 * nsects
                 ELSE SIZEOF_SEGMENT_COMMAND_32 + 68 * nsects,
     segname |-> name, fileoff |-> fileoff, filesize |-> filesize,
     vmsize |-> vmsize, exec |-> exec,
     dataoff |-> 0, datasize |-> 0, sdk |-> <<0, 0, 0>>]

LinkeditDataCommand(dataoff, datasize) ==
    [cmd |-> LC_CODE_SIGNATURE, cmdsize |-> SIZEOF_LINKEDIT_DATA_COMMAND,
     segname |-> "", fileoff |-> 0, filesize |-> 0, vmsize |-> 0,
     exec |-> FALSE, dataoff |-> dataoff, datasize |-> datasize,
     sdk |-> <<0, 0, 0>>]

BuildVersionCommand(sdk) ==
    [cmd |-> "LC_BUILD_VERSION", cmdsize |-> 24,
     segname |-> "", fileoff |-> 0, filesize |-> 0, vmsize |-> 0,
     exec |-> FALSE, dataoff |-> 0, datasize |-> 0, sdk |-> sdk]

OtherCommand(tag, size) ==
    [cmd |-> tag, cmdsize |-> size,
     segname |-> "", fileoff |-> 0, filesize |-> 0, vmsize |-> 0,
     exec |-> FALSE, dataoff |-> 0, datasize |-> 0, sdk |-> <<0, 0, 0>>]

IsSegment(c) == c.cmd \in {"LC_SEGMENT", "LC_SEGMENT_64"}

HeaderSize(bits) == IF bits = 64 THEN SIZEOF_HEADER_64 ELSE SIZEOF_HEADER_32

RECURSIVE SumCmdSize(_)
SumCmdSize(cmds) ==
    IF cmds = <<>> THEN 0 ELSE Head(cmds).cmdsize + SumCmdSize(Tail(cmds))

\* goblin's LoadCommand: the command and its file offset.
LoadCommands(bits, cmds) ==
    [i \in 1..Len(cmds) |->
        [offset |-> HeaderSize(bits) + SumCmdSize(SubSeq(cmds, 1, i - 1)),
         command |-> cmds[i]]]

MachOBinary(data, bits, filetype, cputype, cmds) ==
    [data |-> data,
     header |-> [bits |-> bits, filetype |-> filetype, cputype |-> cputype,
                 ncmds |-> Len(cmds), sizeofcmds |-> SumCmdSize(cmds)],
     load_commands |-> LoadCommands(bits, cmds)]

\* The segments in load command order, each with the file bytes it covers.
RECURSIVE SegmentsOf(_, _)
SegmentsOf(lcs, data) ==
    IF lcs = <<>> THEN <<>>
    ELSE LET c == Head(lcs).command
             rest == SegmentsOf(Tail(lcs), data)
         IN IF IsSegment(c)
            THEN <<[name |-> c.segname, fileoff |-> c.fileoff,
                    filesize |-> c.filesize, vmsize |-> c.vmsize,
                    exec |-> c.exec,
                    data |-> SliceBuf(data, c.fileoff, c.fileoff + c.filesize)]>>
                 \o rest
            ELSE rest

Segments(macho) == SegmentsOf(macho.load_commands, macho.data)

\* Stable insertion of a segment into a list sorted by fileoff.
RECURSIVE InsertByFileoff(_, _)
InsertByFileoff(sorted, seg) ==
    IF sorted = <<>> THEN <<seg>>
    ELSE IF Head(sorted).fileoff <= seg.fileoff
         THEN <<Head(sorted)>> \o InsertByFileoff(Tail(sorted), seg)
         ELSE <<seg>> \o sorted

RECURSIVE SortByFileoff(_, _)
SortByFileoff(segs, acc) ==
    IF segs = <<>> THEN acc
    ELSE SortByFileoff(Tail(segs), InsertByFileoff(acc, Head(segs)))

segments_by_file_offset(macho) == SortByFileoff(Segments(macho), <<>>)

RECURSIVE FirstCommand(_, _)
FirstCommand(lcs, kind) ==
    IF lcs = <<>> THEN NoCommand
    ELSE IF Head(lcs).command.cmd = kind THEN Head(lcs).command
    ELSE FirstCommand(Tail(lcs), kind)

code_signature_load_command(macho) ==
    FirstCommand(macho.load_commands, LC_CODE_SIGNATURE)

HasLinkedit(macho) ==
    \E i \in 1..Len(macho.load_commands) :
        /\ IsSegment(macho.load_commands[i].command)
        /\ macho.load_commands[i].command.segname = SEG_LINKEDIT

\* The first segment named __LINKEDIT.
LinkeditSegment(macho) ==
    LET lcs == macho.load_commands
        i == CHOOSE j \in 1..Len(lcs) :
                /\ IsSegment(lcs[j].command)
                /\ lcs[j].command.segname = SEG_LINKEDIT
                /\ \A k \in 1..(j - 1) :
                      ~(IsSegment(lcs[k].command)
                        /\ lcs[k].command.segname = SEG_LINKEDIT)
    IN SegmentsOf(<<lcs[i]>>, macho.data)[1]

Ok(v) == [ok |-> TRUE, value |-> v]
Err(e) == [ok |-> FALSE, err |-> e]

\* The file offset at which the content to digest ends: the start of the
\* current signature, else the end of __LINKEDIT.
code_limit_binary_offset(macho) ==
    LET Limit(sig, le) ==
            IF sig.cmd # "none" THEN Ok(sig.dataoff)
            ELSE Ok(le.fileoff + BufLen(le.data))
    IN IF ~HasLinkedit(macho) THEN Err("MissingLinkedit")
       ELSE Limit(code_signature_load_command(macho), LinkeditSegment(macho))

\* The bytes of __LINKEDIT before the current signature (None without
\* __LINKEDIT).
linkedit_data_before_signature(macho) ==
    LET Before(sig, le) ==
            IF sig.cmd # "none"
            THEN Ok(SliceBuf(le.data, 0, sig.dataoff - le.fileoff))
            ELSE Ok(le.data)
    IN IF ~HasLinkedit(macho) THEN Err("None")
       ELSE Before(code_signature_load_command(macho), LinkeditSegment(macho))

\* Signing needs __LINKEDIT to be the last segment and an existing
\* signature to be the tail of __LINKEDIT.
check_signing_capability(macho) ==
    LET Tail_(last, sig) ==
            IF last.name # SEG_LINKEDIT THEN Err("UnsupportedBinary")
            ELSE IF sig.cmd = "none" THEN Ok(TRUE)
            ELSE IF /\ sig.dataoff >= last.fileoff
                    /\ sig.dataoff + sig.datasize = last.fileoff + BufLen(last.data)
                 THEN Ok(TRUE)
                 ELSE Err("UnsupportedBinary")
        Capable(sorted) ==
            IF sorted = <<>> \/ ~HasLinkedit(macho) THEN Err("MissingLinkedit")
            ELSE Tail_(sorted[Len(sorted)], code_signature_load_command(macho))
    IN Capable(segments_by_file_offset(macho))

is_executable(macho) == macho.header.filetype = MH_EXECUTE

\* (fileoff, filesize) of the segment marked executable.
executable_segment_boundary(macho) ==
    LET Boundary(segment) == Ok(<<segment.fileoff, segment.filesize>>)
        First(sorted) ==
            IF \A i \in 1..Len(sorted) : ~sorted[i].exec THEN Err("InvalidBinary")
            ELSE Boundary(sorted[CHOOSE j \in 1..Len(sorted) :
                                    /\ sorted[j].exec
                                    /\ \A k \in 1..(j - 1) : ~sorted[k].exec])
    IN First(segments_by_file_offset(macho))

\* Platform and SDK version from LC_BUILD_VERSION; None without it.
find_targeting(macho) ==
    LET Targeting(c) ==
            IF c.cmd = "none" THEN [known |-> FALSE, sdk_version |-> <<0, 0, 0>>]
            ELSE [known |-> TRUE, sdk_version |-> c.sdk]
    IN Targeting(FirstCommand(macho.load_commands, "LC_BUILD_VERSION"))

hash_len(digest) ==
    CASE digest = "Sha1" -> 20
      [] digest = "Sha256" -> 32
      [] digest = "Sha384" -> 48
      [] digest = "Sha512" -> 64

CeilDiv(x, y) == (x + y - 1) \div y

\* ceil(code_limit_offset / page) * digest_len(kind)
code_digests_size(macho, digest, page_size) ==
    LET Size(limit) ==
            IF ~limit.ok THEN limit
            ELSE Ok(CeilDiv(limit.value, page_size) * hash_len(digest))
    IN Size(code_limit_binary_offset(macho))


\* ---------------------------------------------------------------------
\* create_macho_with_signature: the Mach-O rewriter
\* ---------------------------------------------------------------------
\* A padding that is never empty.
SignaturePaddingLengthFull(offset) == SIG_ALIGN - (offset % SIG_ALIGN)

SignaturePaddingLength(offset) ==
    LET remainder == offset % SIG_ALIGN
    IN IF remainder = 0 THEN 0 ELSE SIG_ALIGN - remainder

\* codesign rounds the segment's vmsize up to the nearest 16kb boundary.
NewLinkeditVmsize(size) ==
    LET remainder == size % LINKEDIT_VM_ALIGN
    IN IF remainder = 0 THEN size ELSE size + LINKEDIT_VM_ALIGN - remainder

\* The input's header as it is.
NewHeaderUnchanged(macho) == macho.header

\* The header written first: one more command when there is no
\* LC_CODE_SIGNATURE yet.
NewHeader(macho) ==
    IF code_signature_load_command(macho).cmd = "none"
    THEN [macho.header EXCEPT !.ncmds = @ + 1,
                              !.sizeofcmds = @ + SIZEOF_LINKEDIT_DATA_COMMAND]
    ELSE macho.header

\* The size of the fixed struct scroll writes for a command.
StructSize(c) ==
    CASE c.cmd = LC_CODE_SIGNATURE -> SIZEOF_LINKEDIT_DATA_COMMAND
      [] c.cmd = "LC_SEGMENT" -> SIZEOF_SEGMENT_COMMAND_32
      [] c.cmd = "LC_SEGMENT_64" -> SIZEOF_SEGMENT_COMMAND_64
      [] OTHER -> c.cmdsize

\* A rewrite that leaves the size of the signature as it was.
NewCommandStaleSize(c, sig_offset, sig_len, le_size, le_vmsize) ==
    IF c.cmd = LC_CODE_SIGNATURE
    THEN [c EXCEPT !.dataoff = sig_offset]
    ELSE IF IsSegment(c) /\ c.segname = SEG_LINKEDIT
    THEN [c EXCEPT !.filesize = le_size, !.vmsize = le_vmsize]
    ELSE c

\* One load command as rewritten: the signature command gets the new offset
\* and size, __LINKEDIT the new sizes, every other command is kept.  The
\* `as _` casts narrow to the field's width (u32, u64 in segment_command_64);
\* every offset and size of the images below is far under 2^31, where the
\* casts keep the value.
NewCommand(c, sig_offset, sig_len, le_size, le_vmsize) ==
    IF c.cmd = LC_CODE_SIGNATURE
    THEN [c EXCEPT !.dataoff = sig_offset,
                   !.datasize = sig_len]
    ELSE IF IsSegment(c) /\ c.segname = SEG_LINKEDIT
    THEN [c EXCEPT !.filesize = le_size,
                   !.vmsize = le_vmsize]
    ELSE c

\* The bytes written for one load command: mutated commands are written as
\* a struct followed by the original bytes after the struct; the others
\* reflect the original bytes.
WriteCommand(out, macho, lc, sig_offset, sig_len, le_size, le_vmsize) ==
    LET Write(c, original_command_data) ==
            IF c.cmd = LC_CODE_SIGNATURE \/ IsSegment(c)
            THEN WriteAll(
                    Append1(out, Atom("lc",
                                      NewCommand(c, sig_offset, sig_len, le_size, le_vmsize),
                                      0, StructSize(c))),
                    SliceBuf(original_command_data, StructSize(c), c.cmdsize))
            ELSE WriteAll(out, original_command_data)
    IN Write(lc.command,
             SliceBuf(macho.data, lc.offset, lc.offset + lc.command.cmdsize))

RECURSIVE WriteCommands(_, _, _, _, _, _, _)
WriteCommands(out, macho, lcs, sig_offset, sig_len, le_size, le_vmsize) ==
    IF lcs = <<>> THEN out
    ELSE WriteCommands(
            WriteCommand(out, macho, Head(lcs), sig_offset, sig_len, le_size, le_vmsize),
            macho, Tail(lcs), sig_offset, sig_len, le_size, le_vmsize)

\* If we didn't see a signature load command, write one out now.
AppendSignatureCommand(out, macho, sig_offset, sig_len) ==
    IF code_signature_load_command(macho).cmd = "none"
    THEN Append1(out, Atom("lc", LinkeditDataCommand(sig_offset, sig_len),
                           0, SIZEOF_LINKEDIT_DATA_COMMAND))
    ELSE out

\* The __LINKEDIT arm of the segment loop.  st is the writer state
\* [out, wrote, err]; err is "" while the writer is healthy.
WriteLinkedit(st, prefix, padding_len, sig_offset, signature_data) ==
    LET Signature(padded) ==
            IF BufLen(padded) # sig_offset \/ BufLen(padded) % SIG_ALIGN # 0
            THEN [st EXCEPT !.err = "panic"]
            ELSE [st EXCEPT !.out = WriteAll(padded, signature_data), !.wrote = TRUE]
    IN Signature(WriteAll(WriteAll(st.out, prefix), Zeros(padding_len)))

\* The arm for every other segment: only segment data new to the writer.
WriteOtherSegment(st, segment) ==
    LET Write(cursor) ==
            IF segment.fileoff < cursor
            THEN IF segment.data = <<>> THEN st
                 ELSE IF ~SliceOk(segment.data, cursor, segment.filesize)
                 THEN [st EXCEPT !.err = "panic"]
                 ELSE [st EXCEPT
                         !.out = WriteAll(@, SliceBuf(segment.data, cursor, segment.filesize)),
                         !.wrote = TRUE]
            ELSE [st EXCEPT !.out = WriteAll(@, segment.data), !.wrote = TRUE]
    IN Write(BufLen(st.out))

\* A comparison that lets every overlap through.
AlignCursorLenient(st, macho, segment) ==
    LET Compare(cursor) ==
            IF cursor < segment.fileoff
            THEN IF ~SliceOk(macho.data, cursor, segment.fileoff)
                 THEN [st EXCEPT !.err = "panic"]
                 ELSE [st EXCEPT
                         !.out = WriteAll(@, SliceBuf(macho.data, cursor, segment.fileoff))]
            ELSE st
    IN Compare(BufLen(st.out))

\* The cursor against the segment's start: copy the gap, let the two
\* overlaps through, or report corruption.
AlignCursor(st, macho, segment) ==
    LET Compare(cursor) ==
            IF cursor < segment.fileoff
            THEN IF ~SliceOk(macho.data, cursor, segment.fileoff)
                 THEN [st EXCEPT !.err = "panic"]
                 ELSE [st EXCEPT
                         !.out = WriteAll(@, SliceBuf(macho.data, cursor, segment.fileoff))]
            ELSE IF cursor > segment.fileoff /\ segment.fileoff = 0 THEN st
            ELSE IF cursor > segment.fileoff /\ ~st.wrote THEN st
            ELSE IF cursor > segment.fileoff THEN [st EXCEPT !.err = "MachOWrite"]
            ELSE st
    IN Compare(BufLen(st.out))

WriteSegment(st, macho, segment, prefix, padding_len, sig_offset, signature_data) ==
    LET Data(st1) ==
            IF st1.err # "" THEN st1
            ELSE IF segment.name = SEG_LINKEDIT
            THEN WriteLinkedit(st1, prefix, padding_len, sig_offset, signature_data)
            ELSE WriteOtherSegment(st1, segment)
    IN IF segment.name = SEG_PAGEZERO THEN st
       ELSE Data(AlignCursor(st, macho, segment))

RECURSIVE WriteSegments(_, _, _, _, _, _, _)
WriteSegments(st, macho, segs, prefix, padding_len, sig_offset, signature_data) ==
    IF segs = <<>> \/ st.err # "" THEN st
    ELSE WriteSegments(
            WriteSegment(st, macho, Head(segs), prefix, padding_len, sig_offset, signature_data),
            macho, Tail(segs), prefix, padding_len, sig_offset, signature_data)

\* Derive a new Mach-O binary with new signature data.
create_macho_with_signature(macho, signature_data) ==
    LET Finish(st) == IF st.err # "" THEN Err(st.err) ELSE Ok(st.out)
        Write(prefix, padding_len, sig_offset, le_size, header) ==
            Finish(WriteSegments(
                [out |-> AppendSignatureCommand(
                            WriteCommands(<<Atom("hdr", header, 0, HeaderSize(header.bits))>>,
                                          macho, macho.load_commands,
                                          sig_offset, BufLen(signature_data),
                                          le_size, NewLinkeditVmsize(le_size)),
                            macho, sig_offset, BufLen(signature_data)),
                 wrote |-> FALSE, err |-> ""],
                macho, segments_by_file_offset(macho),
                prefix, padding_len, sig_offset, signature_data))
        Sizes(prefix, limit, signature_padding_length) ==
            Write(prefix, signature_padding_length,
                  limit + signature_padding_length,
                  BufLen(prefix) + signature_padding_length + BufLen(signature_data),
                  NewHeader(macho))
        Checked(capable, before, limit) ==
            IF ~capable.ok THEN capable
            ELSE IF ~before.ok THEN Err("MissingLinkedit")
            ELSE IF ~limit.ok THEN limit
            ELSE Sizes(before.value, limit.value, SignaturePaddingLength(limit.value))
    IN Checked(check_signing_capability(macho),
               linkedit_data_before_signature(macho),
               code_limit_binary_offset(macho))


\* ---------------------------------------------------------------------
\* The input images
\* ---------------------------------------------------------------------
OrigData(id, len) == <<Atom("orig", id, 0, len)>>

\* A thin arm64 executable, unsigned; __LINKEDIT ends off the 16 byte grid.
ExeImage ==
    MachOBinary(OrigData("exe", 5323), 64, MH_EXECUTE, "arm64",
        << SegmentCommand(64, SEG_PAGEZERO, 0, 0, 16384, 0, FALSE),
           SegmentCommand(64, "__TEXT", 0, 4096, 4096, 1, TRUE),
           SegmentCommand(64, "__DATA", 4096, 1000, 4096, 1, FALSE),
           BuildVersionCommand(<<14, 2, 0>>),
           SegmentCommand(64, SEG_LINKEDIT, 5120, 203, 16384, 0, FALSE) >>)

\* The same executable carrying a signature at the tail of __LINKEDIT.
SignedImage ==
    MachOBinary(OrigData("signed", 14328), 64, MH_EXECUTE, "arm64",
        << SegmentCommand(64, SEG_PAGEZERO, 0, 0, 16384, 0, FALSE),
           SegmentCommand(64, "__TEXT", 0, 4096, 4096, 1, TRUE),
           SegmentCommand(64, "__DATA", 4096, 1000, 4096, 1, FALSE),
           BuildVersionCommand(<<14, 2, 0>>),
           SegmentCommand(64, SEG_LINKEDIT, 5120, 9208, 16384, 0, FALSE),
           LinkeditDataCommand(5328, 9000) >>)

\* An x86_64 dylib without targeting; three code pages.
DylibImage ==
    MachOBinary(OrigData("dylib", 8592), 64, MH_DYLIB, "x86_64",
        << SegmentCommand(64, "__TEXT", 0, 8192, 8192, 2, TRUE),
           OtherCommand("LC_ID_DYLIB", 48),
           SegmentCommand(64, SEG_LINKEDIT, 8192, 400, 16384, 0, FALSE) >>)

\* A 32-bit executable.
Exe32Image ==
    MachOBinary(OrigData("exe32", 4196), 32, MH_EXECUTE, "i386",
        << SegmentCommand(32, SEG_PAGEZERO, 0, 0, 4096, 0, FALSE),
           SegmentCommand(32, "__TEXT", 0, 4096, 4096, 1, TRUE),
           SegmentCommand(32, SEG_LINKEDIT, 4096, 100, 4096, 0, FALSE) >>)

\* The first non-empty segment starts after offset 0 but inside the load
\* commands.
TextOffImage ==
    MachOBinary(OrigData("textoff", 1122), 64, MH_EXECUTE, "arm64",
        << SegmentCommand(64, "__TEXT", 64, 1000, 4096, 0, TRUE),
           SegmentCommand(64, SEG_LINKEDIT, 1072, 50, 16384, 0, FALSE) >>)

\* As above with a first segment shorter than the load commands.
TextOffSmallImage ==
    MachOBinary(OrigData("textoffsmall", 300), 64, MH_EXECUTE, "arm64",
        << SegmentCommand(64, "__TEXT", 64, 100, 4096, 0, TRUE),
           SegmentCommand(64, SEG_LINKEDIT, 256, 44, 16384, 0, FALSE) >>)

\* __DATA starts inside __TEXT.
OverlapImage ==
    MachOBinary(OrigData("overlap", 4600), 64, MH_EXECUTE, "x86_64",
        << SegmentCommand(64, "__TEXT", 0, 4096, 4096, 1, TRUE),
           SegmentCommand(64, "__DATA", 4000, 500, 4096, 0, FALSE),
           SegmentCommand(64, SEG_LINKEDIT, 4500, 100, 16384, 0, FALSE) >>)

\* No __LINKEDIT segment.
NoLinkeditImage ==
    MachOBinary(OrigData("nolinkedit", 4096), 64, MH_EXECUTE, "arm64",
        << SegmentCommand(64, "__TEXT", 0, 4096, 4096, 1, TRUE) >>)

\* A signature that is not the tail of __LINKEDIT.
TrailingImage ==
    MachOBinary(OrigData("trailing", 4396), 64, MH_EXECUTE, "arm64",
        << SegmentCommand(64, "__TEXT", 0, 4096, 4096, 1, TRUE),
           SegmentCommand(64, SEG_LINKEDIT, 4096, 300, 16384, 0, FALSE),
           LinkeditDataCommand(4112, 100) >>)

Images ==
    {ExeImage, SignedImage, DylibImage, Exe32Image, TextOffImage,
     TextOffSmallImage, OverlapImage, NoLinkeditImage, TrailingImage}

\* The slices universal inputs are made of.
FatImages == {ExeImage, DylibImage, OverlapImage}

ImageId(img) == img.data[1].id

ImageById(id) == CHOOSE img \in Images : ImageId(img) = id

\* ---------------------------------------------------------------------
\* MachOBinary::parse of a buffer the rewriter produced
\* ---------------------------------------------------------------------
\* The command serialized at an offset of the buffer: a struct the rewriter
\* wrote, or the bytes of a command of an input image.
CommandAt(buf, off) ==
    LET Struct(x) ==
            IF SliceBuf(buf, off, off + StructSize(x.id))
                    = <<Atom("lc", x.id, 0, StructSize(x.id))>>
            THEN x.id ELSE NoCommand
        Whole(x, c) ==
            IF SliceBuf(buf, off, off + c.cmdsize)
                    = <<Atom("orig", x.id, x.a, x.a + c.cmdsize)>>
            THEN c ELSE NoCommand
        Original(x, lcs) ==
            IF \E i \in 1..Len(lcs) : lcs[i].offset = x.a
            THEN Whole(x, lcs[CHOOSE i \in 1..Len(lcs) : lcs[i].offset = x.a].command)
            ELSE NoCommand
        First(x) ==
            IF x.k = "lc" /\ x.a = 0 THEN Struct(x)
            ELSE IF x.k = "orig" THEN Original(x, ImageById(x.id).load_commands)
            ELSE NoCommand
        At(probe) == IF probe = <<>> THEN NoCommand ELSE First(probe[1])
    IN At(SliceBuf(buf, off, off + 1))

RECURSIVE ReadCommands(_, _, _)
ReadCommands(buf, off, n) ==
    LET Cons(c, rest) ==
            IF ~rest.ok THEN rest
            ELSE Ok(<<[offset |-> off, command |-> c]>> \o rest.value)
        Read(c) ==
            IF c.cmd = "none" THEN Err("ParseError")
            ELSE Cons(c, ReadCommands(buf, off + c.cmdsize, n - 1))
    IN IF n = 0 THEN Ok(<<>>) ELSE Read(CommandAt(buf, off))

ParseMachO(buf) ==
    LET Binary(header, lcs) ==
            IF ~lcs.ok THEN lcs
            ELSE IF \E i \in 1..Len(lcs.value) :
                        /\ IsSegment(lcs.value[i].command)
                        /\ lcs.value[i].command.fileoff + lcs.value[i].command.filesize
                              > BufLen(buf)
            THEN Err("ParseError")
            ELSE Ok([data |-> buf, header |-> header, load_commands |-> lcs.value])
        Commands(header) ==
            Binary(header, ReadCommands(buf, HeaderSize(header.bits), header.ncmds))
    IN IF buf = <<>> \/ buf[1].k # "hdr" \/ buf[1].a # 0
          \/ buf[1].b # HeaderSize(buf[1].id.bits)
       THEN Err("ParseError")
       ELSE Commands(buf[1].id)


\* ---------------------------------------------------------------------
\* Signing settings
\* ---------------------------------------------------------------------
None == [some |-> FALSE, v |-> 0]
NoneStr == [some |-> FALSE, v |-> ""]
NoneSet == [some |-> FALSE, v |-> {}]
NoneVersion == [some |-> FALSE, v |-> <<0, 0, 0>>]
Some(x) == [some |-> TRUE, v |-> x]

ADHOC == "ADHOC"
RUNTIME == "RUNTIME"
LINKER_SIGNED == "LINKER_SIGNED"
HARD == "HARD"
MAIN_BINARY == "MAIN_BINARY"
ALLOW_UNSIGNED == "ALLOW_UNSIGNED"

\* The length in bytes of an identifier string.
IdentLen(name) == IF name = "hello" THEN 5 ELSE 6000

DefaultSettings ==
    [identifier |-> Some("hello"),
     arch_identifier |-> NoneStr,         \* identifier given for x86_64 slices only
     team_id |-> NoneStr,
     digest_type |-> "Sha256",
     extra_digests |-> <<>>,
     signing_key |-> FALSE,
     certificate_chain |-> <<>>,          \* DER length of every chain certificate
     time_stamp_url |-> FALSE,
     flags |-> {},
     runtime_version |-> NoneVersion,
     info_plist_data |-> FALSE,
     code_resources_data |-> FALSE,
     entitlements_xml |-> None,           \* length of the XML
     entitlements_plist |-> NoneSet,      \* the keys that are true in the plist
     launch_constraints_self |-> None,    \* length of the encoded constraints
     launch_constraints_parent |-> None,
     launch_constraints_responsible |-> None,
     library_constraints |-> None,
     designated_requirement |-> [mode |-> "Auto", exprs |-> <<>>]]

\* Settings for one slice of a universal binary: what is given for the
\* slice's architecture takes the place of the general value.
as_universal_macho_settings(s, index, cputype) ==
    IF cputype = "x86_64" /\ s.arch_identifier.some
    THEN [s EXCEPT !.identifier = s.arch_identifier, !.arch_identifier = NoneStr]
    ELSE [s EXCEPT !.arch_identifier = NoneStr]

\* ---------------------------------------------------------------------
\* Blobs
\* ---------------------------------------------------------------------
BLOB_HEADER_LEN == 8
DERIVED_REQUIREMENT_LEN == 120
ENTITLEMENTS_DER_LEN == 1100

\* (magic: u32, length: u32 including header, payload)
BlobLen(payload_len) == BLOB_HEADER_LEN + payload_len

RECURSIVE SumSeq(_)
SumSeq(q) == IF q = <<>> THEN 0 ELSE Head(q) + SumSeq(Tail(q))

\* A requirement set: a count, and for every requirement an index entry and
\* the requirement blob.
RequirementSetLen(exprs) ==
    BlobLen(4 + SumSeq([i \in 1..Len(exprs) |-> 8 + BlobLen(exprs[i])]))

SpecialBlob(slot, len, what) == [slot |-> slot, len |-> len, what |-> what]

\* Requirements derived without asking for the identifier.
RequirementsUnnamed(settings) ==
    IF settings.designated_requirement.mode = "Auto"
    THEN IF settings.signing_key THEN Ok(<<DERIVED_REQUIREMENT_LEN>>) ELSE Ok(<<>>)
    ELSE Ok(settings.designated_requirement.exprs)

\* The requirement expressions of create_special_blobs, or NoIdentifier.
Requirements(settings) ==
    IF settings.designated_requirement.mode = "Auto"
    THEN IF settings.signing_key
         THEN IF ~settings.identifier.some THEN Err("NoIdentifier")
              ELSE Ok(<<DERIVED_REQUIREMENT_LEN + IdentLen(settings.identifier.v)>>)
         ELSE Ok(<<>>)
    ELSE Ok(settings.designated_requirement.exprs)

\* A blob pushed whether or not the setting is there.
OptionalBlobAlways(opt, slot, len) == <<SpecialBlob(slot, len, opt.v)>>

OptionalBlob(opt, slot, len) ==
    IF opt.some THEN <<SpecialBlob(slot, len, opt.v)>> ELSE <<>>

\* Special blobs with the DER entitlements pushed for everything but an
\* executable.
create_special_blobs_inverted(settings, executable) ==
    LET requirements == Requirements(settings)
    IN IF ~requirements.ok THEN requirements
       ELSE Ok(
            <<SpecialBlob("RequirementSet", RequirementSetLen(requirements.value),
                          requirements.value)>>
            \o OptionalBlob(settings.entitlements_xml, "Entitlements",
                            BlobLen(settings.entitlements_xml.v))
            \o (IF ~executable
                THEN OptionalBlob(settings.entitlements_plist, "EntitlementsDer",
                                  BlobLen(ENTITLEMENTS_DER_LEN))
                ELSE <<>>)
            \o OptionalBlob(settings.launch_constraints_self, "LaunchConstraintsSelf",
                            BlobLen(settings.launch_constraints_self.v))
            \o OptionalBlob(settings.launch_constraints_parent, "LaunchConstraintsParent",
                            BlobLen(settings.launch_constraints_parent.v))
            \o OptionalBlob(settings.launch_constraints_responsible,
                            "LaunchConstraintsResponsibleProcess",
                            BlobLen(settings.launch_constraints_responsible.v))
            \o OptionalBlob(settings.library_constraints, "LibraryConstraints",
                            BlobLen(settings.library_constraints.v)))

\* Create blobs that need to be written given the current configuration:
\* all blobs except CodeDirectory and Signature.
create_special_blobs(settings, executable) ==
    LET requirements == Requirements(settings)
    IN IF ~requirements.ok THEN requirements
       ELSE Ok(
            <<SpecialBlob("RequirementSet", RequirementSetLen(requirements.value),
                          requirements.value)>>
            \o OptionalBlob(settings.entitlements_xml, "Entitlements",
                            BlobLen(settings.entitlements_xml.v))
            \o (IF executable
                THEN OptionalBlob(settings.entitlements_plist, "EntitlementsDer",
                                  BlobLen(ENTITLEMENTS_DER_LEN))
                ELSE <<>>)
            \o OptionalBlob(settings.launch_constraints_self, "LaunchConstraintsSelf",
                            BlobLen(settings.launch_constraints_self.v))
            \o OptionalBlob(settings.launch_constraints_parent, "LaunchConstraintsParent",
                            BlobLen(settings.launch_constraints_parent.v))
            \o OptionalBlob(settings.launch_constraints_responsible,
                            "LaunchConstraintsResponsibleProcess",
                            BlobLen(settings.launch_constraints_responsible.v))
            \o OptionalBlob(settings.library_constraints, "LibraryConstraints",
                            BlobLen(settings.library_constraints.v)))

\* ---------------------------------------------------------------------
\* estimate_embedded_signature_size
\* ---------------------------------------------------------------------
\* The least multiple of 1024 that is not under the size.
AlignEstimateUp(size) ==
    IF size % ESTIMATE_ALIGN = 0 THEN size
    ELSE size + (ESTIMATE_ALIGN - (size % ESTIMATE_ALIGN))

\* Align on 1k boundaries just because.
AlignEstimate(size) == size + (ESTIMATE_ALIGN - (size % ESTIMATE_ALIGN))

RECURSIVE ExtraDigestsSize(_, _)
ExtraDigestsSize(macho, digests) ==
    IF digests = <<>> THEN 0
    ELSE code_digests_size(macho, Head(digests), PAGE_SIZE).value
            + ExtraDigestsSize(macho, Tail(digests))

\* The blobs of a binary that is not an executable.
EstimateBlobsNotExecutable(settings) == create_special_blobs(settings, FALSE)

\* The blobs whose encoded size the estimate adds in.
EstimateBlobs(settings) == create_special_blobs(settings, TRUE)

\* The size before the final alignment.
UnalignedEstimate(macho, settings) ==
    LET code_directory_count == 1 + Len(settings.extra_digests)
        blobs == EstimateBlobs(settings).value
    IN CD_COMMON_SIZE * code_directory_count
       + code_digests_size(macho, settings.digest_type, PAGE_SIZE).value
       + ExtraDigestsSize(macho, settings.extra_digests)
       + SumSeq([i \in 1..Len(blobs) |-> blobs[i].len])
       + CMS_FIXED_SIZE
       + SumSeq(settings.certificate_chain)
       + (IF settings.time_stamp_url THEN TST_SIZE ELSE 0)

estimate_embedded_signature_size(macho, settings) ==
    LET Estimated(digests, blobs) ==
            IF ~digests.ok THEN digests
            ELSE IF ~blobs.ok THEN blobs
            ELSE Ok(AlignEstimate(UnalignedEstimate(macho, settings)))
    IN Estimated(code_digests_size(macho, settings.digest_type, PAGE_SIZE),
                 EstimateBlobs(settings))


\* ---------------------------------------------------------------------
\* create_code_directory
\* ---------------------------------------------------------------------
\* Code directory versions, oldest first.
Initial == 0
SupportsScatter == 1
SupportsTeamId == 2
SupportsCodeLimit64 == 3
SupportsExecutableSegment == 4
SupportsRuntime == 5

\* (major << 16) | (minor << 8) | patch
semver_to_macho_target_version(version) ==
    version[1] * 65536 + version[2] * 256 + version[3]

\* The executable segment flag an entitlement key stands for.
EntitlementFlag(key) ==
    CASE key = "get-task-allow" -> {ALLOW_UNSIGNED}
      [] key = "run-unsigned-code" -> {ALLOW_UNSIGNED}
      [] key = "com.apple.private.cs.debugger" -> {"DEBUGGER"}
      [] OTHER -> {}

plist_to_executable_segment_flags(plist) ==
    UNION {EntitlementFlag(key) : key \in plist}

\* The flags with the linker's mark left in.
CodeSignatureFlagsOfLinker(settings) ==
    IF ~settings.signing_key THEN settings.flags \cup {ADHOC}
    ELSE settings.flags \ {ADHOC}

\* settings.flags, ADHOC following the absence of a signing key,
\* LINKER_SIGNED removed.
CodeSignatureFlags(settings) ==
    LET additional == settings.flags
        adhoc == IF ~settings.signing_key THEN additional \cup {ADHOC}
                 ELSE additional \ {ADHOC}
    IN adhoc \ {LINKER_SIGNED}

\* Executable segment flags whatever the file type.
ExecSegFlagsAlways(settings, macho) ==
    IF settings.entitlements_plist.some
    THEN Some(plist_to_executable_segment_flags(settings.entitlements_plist.v)
              \cup {MAIN_BINARY})
    ELSE Some({MAIN_BINARY})

\* Executable segment flags are only present if the Mach-O binary is an
\* executable.
ExecSegFlags(settings, macho) ==
    IF is_executable(macho)
    THEN IF settings.entitlements_plist.some
         THEN Some(plist_to_executable_segment_flags(settings.entitlements_plist.v)
                   \cup {MAIN_BINARY})
         ELSE Some({MAIN_BINARY})
    ELSE NoneSet

\* The SDK version first when the hardened runtime is flagged.
RuntimeVersionOfSdk(settings, flags, target) ==
    IF RUNTIME \in flags /\ target.known
    THEN Some(semver_to_macho_target_version(target.sdk_version))
    ELSE IF settings.runtime_version.some
    THEN Some(semver_to_macho_target_version(settings.runtime_version.v))
    ELSE None

\* The settings' version, else the SDK version when the hardened runtime is
\* flagged and the targeting is known.
RuntimeVersion(settings, flags, target) ==
    LET runtime == IF settings.runtime_version.some
                   THEN Some(semver_to_macho_target_version(settings.runtime_version.v))
                   ELSE None
    IN IF ~runtime.some /\ RUNTIME \in flags
       THEN IF target.known
            THEN Some(semver_to_macho_target_version(target.sdk_version))
            ELSE None
       ELSE runtime

\* The minimum version that admits every populated field.
adjust_version(cd) ==
    LET needs == {Initial}
                 \cup (IF cd.team_name.some THEN {SupportsTeamId} ELSE {})
                 \cup (IF cd.code_limit_64.some THEN {SupportsCodeLimit64} ELSE {})
                 \cup (IF cd.exec_seg_base.some \/ cd.exec_seg_limit.some
                          \/ cd.exec_seg_flags.some
                       THEN {SupportsExecutableSegment} ELSE {})
                 \cup (IF cd.runtime.some THEN {SupportsRuntime} ELSE {})
    IN [cd EXCEPT !.version = CHOOSE v \in needs : \A w \in needs : w <= v]

\* Fields newer than the version are cleared.
clear_newer_fields(cd) ==
    [cd EXCEPT
        !.team_name = IF cd.version < SupportsTeamId THEN NoneStr ELSE @,
        !.code_limit_64 = IF cd.version < SupportsCodeLimit64 THEN None ELSE @,
        !.exec_seg_base = IF cd.version < SupportsExecutableSegment THEN None ELSE @,
        !.exec_seg_limit = IF cd.version < SupportsExecutableSegment THEN None ELSE @,
        !.exec_seg_flags = IF cd.version < SupportsExecutableSegment THEN NoneSet ELSE @,
        !.runtime = IF cd.version < SupportsRuntime THEN None ELSE @]

\* The special slots create_code_directory digests itself: the data that is
\* provided externally to the embedded signature.
SpecialHashes(settings) ==
    (IF settings.info_plist_data THEN {"Info"} ELSE {})
    \cup (IF settings.code_resources_data THEN {"ResourceDir"} ELSE {})

\* Create the CodeDirectory for the current configuration.  code_digests is
\* what the page digests cover: the bytes [0, code limit) of the image.
\* Every code limit of the images is under u32::MAX, so code_limit_64 is
\* None.
create_code_directory(settings, macho) ==
    LET Directory(flags, limit, boundary) ==
            Ok(clear_newer_fields(adjust_version(
                [version |-> Initial,
                 flags |-> flags,
                 code_limit |-> limit,
                 digest_size |-> hash_len(settings.digest_type),
                 digest_type |-> settings.digest_type,
                 platform |-> 0,
                 page_size |-> PAGE_SIZE,
                 code_limit_64 |-> None,
                 exec_seg_base |-> Some(boundary[1]),
                 exec_seg_limit |-> Some(boundary[2]),
                 exec_seg_flags |-> ExecSegFlags(settings, macho),
                 runtime |-> RuntimeVersion(settings, flags, find_targeting(macho)),
                 ident |-> settings.identifier.v,
                 team_name |-> settings.team_id,
                 code_digests |-> SliceBuf(macho.data, 0, limit),
                 special_hashes |-> SpecialHashes(settings)])))
        Checked(limit, boundary) ==
            IF ~limit.ok THEN limit
            ELSE IF ~boundary.ok THEN boundary
            ELSE IF ~settings.identifier.some THEN Err("NoIdentifier")
            ELSE Directory(CodeSignatureFlags(settings), limit.value, boundary.value)
    IN Checked(code_limit_binary_offset(macho), executable_segment_boundary(macho))


\* ---------------------------------------------------------------------
\* EmbeddedSignatureBuilder and create_superblob
\* ---------------------------------------------------------------------
CD_FIXED_LEN == 88
SUPERBLOB_HEADER_LEN == 12
SUPERBLOB_INDEX_LEN == 8
TEAM_LEN == 10

SlotNumber(slot) ==
    CASE slot = "Info" -> 1
      [] slot = "RequirementSet" -> 2
      [] slot = "ResourceDir" -> 3
      [] slot = "Entitlements" -> 5
      [] slot = "EntitlementsDer" -> 7
      [] slot = "LaunchConstraintsSelf" -> 8
      [] slot = "LaunchConstraintsParent" -> 9
      [] slot = "LaunchConstraintsResponsibleProcess" -> 10
      [] slot = "LibraryConstraints" -> 11

SetMax(S) == IF S = {} THEN 0 ELSE CHOOSE x \in S : \A y \in S : y <= x

\* The serialized code directory: its fixed fields, the identifier and team
\* strings, one digest for every special slot up to the highest one in use
\* and one for every code page.
CodeDirectoryLen(cd, blobs) ==
    LET slots == cd.special_hashes \cup {blobs[i].slot : i \in 1..Len(blobs)}
    IN BlobLen(CD_FIXED_LEN
               + IdentLen(cd.ident) + 1
               + (IF cd.team_name.some THEN TEAM_LEN + 1 ELSE 0)
               + SetMax({SlotNumber(x) : x \in slots}) * cd.digest_size
               + CeilDiv(cd.code_limit, cd.page_size) * cd.digest_size)

\* add_blob: duplicate slots are rejected.
RECURSIVE AddBlobs(_, _)
AddBlobs(added, blobs) ==
    IF blobs = <<>> THEN Ok(added)
    ELSE IF \E i \in 1..Len(added) : added[i].slot = Head(blobs).slot
    THEN Err("SignatureBuilder")
    ELSE AddBlobs(Append(added, Head(blobs)), Tail(blobs))

\* Alternative code directories made without replacing the digest.
AlternativeCodeDirectoriesOfPrimary(settings, macho, digests) ==
    LET Copies(cd) ==
            IF ~cd.ok THEN cd ELSE Ok([i \in 1..Len(digests) |-> cd.value])
    IN Copies(create_code_directory(settings, macho))

\* The alternative code directories, one for every extra digest, made with
\* the settings' digest replaced.
RECURSIVE AlternativeCodeDirectories(_, _, _)
AlternativeCodeDirectories(settings, macho, digests) ==
    LET Cons(cd, rest) ==
            IF ~cd.ok THEN cd
            ELSE IF ~rest.ok THEN rest
            ELSE Ok(<<cd.value>> \o rest.value)
    IN IF digests = <<>> THEN Ok(<<>>)
       ELSE Cons(create_code_directory([settings EXCEPT !.digest_type = Head(digests)],
                                       macho),
                 AlternativeCodeDirectories(settings, macho, Tail(digests)))

\* The Signature blob: the CMS SignedData made with the signing key, or an
\* empty one.  cms is what the CMS and time-stamp oracles answer.
SignatureStep(settings, cms) ==
    IF settings.signing_key
    THEN IF cms.ok
         THEN Ok([call |-> "create_cms_signature", len |-> BlobLen(cms.len),
                  nonce |-> cms.nonce,
                  time_stamp |-> settings.time_stamp_url,
                  chain |-> settings.certificate_chain])
         ELSE Err("CmsError")
    ELSE Ok([call |-> "create_empty_cms_signature", len |-> BlobLen(0),
             nonce |-> 0, time_stamp |-> FALSE, chain |-> <<>>])

\* (magic, total_length, count, [(slot, offset)...], concatenated blobs)
SuperBlobLen(lens) ==
    SUPERBLOB_HEADER_LEN + SUPERBLOB_INDEX_LEN * Len(lens) + SumSeq(lens)

BuilderLog(blobs, ncd, nalt, calls) ==
    [i \in 1..Len(blobs) |-> <<"add_blob", blobs[i].slot>>]
    \o [i \in 1..ncd |-> <<"add_code_directory", "CodeDirectory">>]
    \o [i \in 1..nalt |-> <<"add_alternative_code_directory", "alt">>]
    \o [i \in 1..Len(calls) |-> <<calls[i], "">>]

Failed(e, log) == [ok |-> FALSE, err |-> e, log |-> log]

\* Create data constituting the SuperBlob to be embedded in the
\* __LINKEDIT segment.
create_superblob(settings, macho, cms) ==
    LET Serialized(cds, blobs, signature, lens) ==
            [ok |-> TRUE,
             value |-> <<Atom("sig",
                              [code_directories |-> cds, blobs |-> blobs,
                               signature |-> signature],
                              0, SuperBlobLen(lens))>>,
             code_directories |-> cds,
             log |-> BuilderLog(blobs, 1, Len(cds) - 1,
                                <<signature.call, "create_superblob">>)]
        Built(cds, blobs, signature) ==
            Serialized(cds, blobs, signature,
                       [i \in 1..Len(cds) |-> CodeDirectoryLen(cds[i], blobs)]
                       \o [i \in 1..Len(blobs) |-> blobs[i].len]
                       \o <<signature.len>>)
        Signed(blobs, code_directory, alts, signature) ==
            IF ~signature.ok
            THEN Failed(signature.err,
                        BuilderLog(blobs, 1, Len(alts), <<"create_cms_signature">>))
            ELSE Built(<<code_directory>> \o alts, blobs, signature.value)
        Directories(blobs, code_directory, alts) ==
            IF ~code_directory.ok
            THEN Failed(code_directory.err, BuilderLog(blobs, 0, 0, <<>>))
            ELSE IF ~alts.ok
            THEN Failed(alts.err, BuilderLog(blobs, 1, 0, <<>>))
            ELSE Signed(blobs, code_directory.value, alts.value,
                        SignatureStep(settings, cms))
        Added(added) ==
            IF ~added.ok THEN Failed(added.err, <<>>)
            ELSE Directories(added.value,
                             create_code_directory(settings, macho),
                             AlternativeCodeDirectories(settings, macho,
                                                        settings.extra_digests))
        Special(special) ==
            IF ~special.ok THEN Failed(special.err, <<>>)
            ELSE Added(AddBlobs(<<>>, special.value))
    IN Special(create_special_blobs(settings, is_executable(macho)))


\* ---------------------------------------------------------------------
\* Inputs of the model
\* ---------------------------------------------------------------------
MaxSlices == 2
MaxResign == 1

\* Identifier, identity and designated requirement mode.
IdentitySettings ==
    {[DefaultSettings EXCEPT !.identifier = id, !.arch_identifier = arch,
                             !.signing_key = key, !.designated_requirement = dr] :
        id \in {NoneStr, Some("hello")}, arch \in {NoneStr, Some("hello")},
        key \in BOOLEAN,
        dr \in {[mode |-> "Auto", exprs |-> <<>>],
                [mode |-> "Explicit", exprs |-> <<>>],
                [mode |-> "Explicit", exprs |-> <<40>>]}}

\* Code signature flags and the hardened runtime version.
FlagSettings ==
    {[DefaultSettings EXCEPT !.flags = flags, !.signing_key = key,
                             !.runtime_version = rt] :
        flags \in SUBSET {ADHOC, RUNTIME, LINKER_SIGNED, HARD},
        key \in BOOLEAN, rt \in {NoneVersion, Some(<<10, 15, 4>>)}}

\* What the size of the signature depends on.
SizeSettings ==
    {[DefaultSettings EXCEPT !.extra_digests = extra, !.entitlements_xml = xml,
                             !.entitlements_plist = plist, !.signing_key = id[1],
                             !.time_stamp_url = id[2], !.certificate_chain = id[3]] :
        extra \in {<<>>, <<"Sha1">>, <<"Sha1", "Sha512">>},
        xml \in {None, Some(940), Some(100)},
        plist \in {NoneSet, Some({"get-task-allow", "keychain-access-groups"})},
        id \in {<<FALSE, FALSE, <<>>>>, <<TRUE, FALSE, <<>>>>,
                <<TRUE, TRUE, <<980, 1200>>>>}}

\* The rest: constraints, external data, team and a long identifier.
OtherSettings ==
    {[DefaultSettings EXCEPT !.launch_constraints_self = lc[1],
                             !.launch_constraints_parent = lc[2],
                             !.launch_constraints_responsible = lc[3],
                             !.library_constraints = lc[4],
                             !.info_plist_data = ext, !.code_resources_data = ext,
                             !.team_id = team, !.identifier = id] :
        lc \in {<<None, None, None, None>>, <<Some(64), None, None, None>>,
                <<None, Some(64), Some(48), None>>, <<Some(64), Some(64), Some(48), Some(32)>>},
        ext \in BOOLEAN, team \in {NoneStr, Some("TEAM123456")},
        id \in {Some("hello"), Some("long")}}

\* Entitlements and every constraint at once.
FullSettings ==
    {[DefaultSettings EXCEPT !.entitlements_xml = Some(100),
                             !.entitlements_plist = Some({"get-task-allow"}),
                             !.launch_constraints_self = Some(64),
                             !.launch_constraints_parent = Some(64),
                             !.launch_constraints_responsible = Some(48),
                             !.library_constraints = Some(32),
                             !.signing_key = key] :
        key \in BOOLEAN}

AllSettings ==
    IdentitySettings \cup FlagSettings \cup SizeSettings \cup OtherSettings
    \cup FullSettings

\* The settings universal binaries are signed with.
FatSettings ==
    {s \in IdentitySettings : s.designated_requirement.mode = "Auto"}
    \cup {s \in SizeSettings : ~s.entitlements_xml.some /\ s.extra_digests = <<>>}

RECURSIVE SeqsOf(_, _)
SeqsOf(S, n) ==
    IF n = 0 THEN {<<>>}
    ELSE {<<x>> \o q : x \in S, q \in SeqsOf(S, n - 1)}

ThinInputs == {<<img>> : img \in Images}
FatInputs == UNION {SeqsOf(FatImages, n) : n \in 2..MaxSlices}

\* What the CMS and time-stamp oracles may answer: a failure, or a
\* SignedData of some length carrying a fresh nonce and signing time.
CmsAnswers(s) ==
    IF s.signing_key
    THEN {[ok |-> FALSE, len |-> 0, nonce |-> 0],
          [ok |-> TRUE, len |-> 2000, nonce |-> 1],
          [ok |-> TRUE, len |-> 2000, nonce |-> 2],
          [ok |-> TRUE, len |-> 30000, nonce |-> 1]}
    ELSE {[ok |-> TRUE, len |-> 0, nonce |-> 0]}

\* ---------------------------------------------------------------------
\* MachOSigner::write_signed_binary as a state machine
\* ---------------------------------------------------------------------
VARIABLES
    machos,                  \* self.machos
    settings,                \* the settings of the call
    pc,                      \* where write_signed_binary is
    index,                   \* the slice being signed (from 1)
    signature_len,           \* the reservation of the slice
    intermediate_macho_data, \* the output of the first rewrite
    intermediate_macho,      \* its parse
    superblob,               \* what create_superblob returned
    signature_data,          \* the signature handed to the second rewrite
    binaries,                \* the signed slices so far
    writer,                  \* what has been written to the caller's writer
    result,                  \* "" while running, then "Ok" or the error
    rewrites,                \* the calls of create_macho_with_signature so far
    round,                   \* how often the output has been signed again
    previous                 \* the output the current input was parsed from

vars == <<machos, settings, pc, index, signature_len, intermediate_macho_data,
          intermediate_macho, superblob, signature_data, binaries, writer,
          result, rewrites, round, previous>>

NoSuperblob == [ok |-> FALSE, err |-> "", log |-> <<>>]
NoMacho == [data |-> <<>>,
            header |-> [bits |-> 64, filetype |-> "", cputype |-> "",
                        ncmds |-> 0, sizeofcmds |-> 0],
            load_commands |-> <<>>]
NoOutput == [fat |-> FALSE, slices |-> <<>>]

\* The state at the top of the loop, before the first slice.
Fresh ==
    /\ pc = "estimate"
    /\ index = 1
    /\ signature_len = 0
    /\ intermediate_macho_data = <<>>
    /\ intermediate_macho = NoMacho
    /\ superblob = NoSuperblob
    /\ signature_data = <<>>
    /\ binaries = <<>>
    /\ writer = NoOutput
    /\ result = ""
    /\ rewrites = <<>>

Init ==
    /\ \/ machos \in ThinInputs /\ settings \in AllSettings
       \/ machos \in FatInputs /\ settings \in FatSettings
    /\ round = 0
    /\ previous = NoOutput
    /\ Fresh

original_macho == machos[index]

\* The settings of the slice being signed.
SliceSettings ==
    as_universal_macho_settings(settings, index, original_macho.header.cputype)

\* return Err(e)
Return(e) ==
    /\ pc' = "done"
    /\ result' = e

Estimate ==
    /\ pc = "estimate"
    /\ LET Reserve(r) ==
            IF r.ok
            THEN /\ signature_len' = r.value
                 /\ pc' = "rewrite1"
                 /\ UNCHANGED result
            ELSE /\ Return(r.err)
                 /\ UNCHANGED signature_len
       IN Reserve(estimate_embedded_signature_size(original_macho, SliceSettings))
    /\ UNCHANGED <<machos, settings, index, intermediate_macho_data,
                   intermediate_macho, superblob, signature_data, binaries,
                   writer, rewrites, round, previous>>

\* Derive an intermediate Mach-O with placeholder NULs for signature data.
Rewrite1 ==
    /\ pc = "rewrite1"
    /\ LET Intermediate(r) ==
            /\ rewrites' = Append(rewrites, [slice |-> index, pass |-> 1, ok |-> r.ok])
            /\ IF r.ok
               THEN /\ intermediate_macho_data' = r.value
                    /\ pc' = "parse"
                    /\ UNCHANGED result
               ELSE /\ Return(r.err)
                    /\ UNCHANGED intermediate_macho_data
       IN Intermediate(create_macho_with_signature(original_macho,
                                                   Zeros(signature_len)))
    /\ UNCHANGED <<machos, settings, index, signature_len, intermediate_macho,
                   superblob, signature_data, binaries, writer, round, previous>>

Parse ==
    /\ pc = "parse"
    /\ LET Parsed(r) ==
            IF r.ok
            THEN /\ intermediate_macho' = r.value
                 /\ pc' = "superblob"
                 /\ UNCHANGED result
            ELSE /\ Return(r.err)
                 /\ UNCHANGED intermediate_macho
       IN Parsed(ParseMachO(intermediate_macho_data))
    /\ UNCHANGED <<machos, settings, index, signature_len, intermediate_macho_data,
                   superblob, signature_data, binaries, writer, rewrites, round,
                   previous>>

CreateSuperblob ==
    /\ pc = "superblob"
    /\ LET Created(r) ==
            /\ superblob' = r
            /\ IF r.ok
               THEN /\ signature_data' = r.value
                    /\ pc' = "size_check"
                    /\ UNCHANGED result
               ELSE /\ Return(r.err)
                    /\ UNCHANGED signature_data
       IN \E cms \in CmsAnswers(SliceSettings) :
            Created(create_superblob(SliceSettings, intermediate_macho, cms))
    /\ UNCHANGED <<machos, settings, index, signature_len, intermediate_macho_data,
                   intermediate_macho, binaries, writer, rewrites, round, previous>>

\* A padding that lets a signature of any length through.
PadSignatureUnchecked(data, placeholder_len) ==
    IF BufLen(data) >= placeholder_len THEN Ok(data)
    ELSE Ok(WriteAll(data, Zeros(placeholder_len - BufLen(data))))

\* No padding at all.
PadSignatureShort(data, placeholder_len) ==
    IF BufLen(data) > placeholder_len THEN Err("SignatureDataTooLarge")
    ELSE Ok(data)

\* Pad with NULs to get to our placeholder length.
PadSignature(data, placeholder_len) ==
    IF BufLen(data) > placeholder_len THEN Err("SignatureDataTooLarge")
    ELSE IF BufLen(data) = placeholder_len THEN Ok(data)
    ELSE Ok(WriteAll(data, Zeros(placeholder_len - BufLen(data))))

SizeCheck ==
    /\ pc = "size_check"
    /\ LET Padded(r) ==
            IF r.ok
            THEN /\ signature_data' = r.value
                 /\ pc' = "rewrite2"
                 /\ UNCHANGED result
            ELSE /\ Return(r.err)
                 /\ UNCHANGED signature_data
       IN Padded(PadSignature(signature_data, signature_len))
    /\ UNCHANGED <<machos, settings, index, signature_len, intermediate_macho_data,
                   intermediate_macho, superblob, binaries, writer, rewrites,
                   round, previous>>

\* A second rewrite that writes every slice out as soon as it is signed.
Rewrite2Streaming ==
    /\ pc = "rewrite2"
    /\ LET Final(r) ==
            /\ rewrites' = Append(rewrites, [slice |-> index, pass |-> 2, ok |-> r.ok])
            /\ IF r.ok
               THEN /\ binaries' = Append(binaries, r.value)
                    /\ writer' = [fat |-> Len(machos) > 1,
                                  slices |-> Append(binaries, r.value)]
                    /\ index' = index + 1
                    /\ pc' = IF index = Len(machos) THEN "write" ELSE "estimate"
                    /\ UNCHANGED result
               ELSE /\ Return(r.err)
                    /\ UNCHANGED <<binaries, index, writer>>
       IN Final(create_macho_with_signature(intermediate_macho, signature_data))
    /\ UNCHANGED <<machos, settings, signature_len, intermediate_macho_data,
                   intermediate_macho, superblob, signature_data, round,
                   previous>>

\* A second rewrite that puts the signed slice in front of the others.
Rewrite2Front ==
    /\ pc = "rewrite2"
    /\ LET Final(r) ==
            /\ rewrites' = Append(rewrites, [slice |-> index, pass |-> 2, ok |-> r.ok])
            /\ IF r.ok
               THEN /\ binaries' = <<r.value>> \o binaries
                    /\ index' = index + 1
                    /\ pc' = IF index = Len(machos) THEN "write" ELSE "estimate"
                    /\ UNCHANGED result
               ELSE /\ Return(r.err)
                    /\ UNCHANGED <<binaries, index>>
       IN Final(create_macho_with_signature(intermediate_macho, signature_data))
    /\ UNCHANGED <<machos, settings, signature_len, intermediate_macho_data,
                   intermediate_macho, superblob, signature_data, writer, round,
                   previous>>

Rewrite2 ==
    /\ pc = "rewrite2"
    /\ LET Final(r) ==
            /\ rewrites' = Append(rewrites, [slice |-> index, pass |-> 2, ok |-> r.ok])
            /\ IF r.ok
               THEN /\ binaries' = Append(binaries, r.value)
                    /\ index' = index + 1
                    /\ pc' = IF index = Len(machos) THEN "write" ELSE "estimate"
                    /\ UNCHANGED result
               ELSE /\ Return(r.err)
                    /\ UNCHANGED <<binaries, index>>
       IN Final(create_macho_with_signature(intermediate_macho, signature_data))
    /\ UNCHANGED <<machos, settings, signature_len, intermediate_macho_data,
                   intermediate_macho, superblob, signature_data, writer, round,
                   previous>>

\* The universal binary framing the slices in order.
create_universal_macho(slices) == [fat |-> TRUE, slices |-> slices]

WriteOutput ==
    /\ pc = "write"
    /\ writer' = IF Len(binaries) > 1 THEN create_universal_macho(binaries)
                 ELSE [fat |-> FALSE, slices |-> <<binaries[1]>>]
    /\ Return("Ok")
    /\ UNCHANGED <<machos, settings, index, signature_len, intermediate_macho_data,
                   intermediate_macho, superblob, signature_data, binaries,
                   rewrites, round, previous>>

\* MachOSigner::new on the bytes written, to sign them again with the same
\* settings.
Resign ==
    /\ pc = "done"
    /\ result = "Ok"
    /\ round < MaxResign
    /\ \A i \in 1..Len(writer.slices) : ParseMachO(writer.slices[i]).ok
    /\ machos' = [i \in 1..Len(writer.slices) |-> ParseMachO(writer.slices[i]).value]
    /\ previous' = writer
    /\ round' = round + 1
    /\ pc' = "estimate"
    /\ index' = 1
    /\ signature_len' = 0
    /\ intermediate_macho_data' = <<>>
    /\ intermediate_macho' = NoMacho
    /\ superblob' = NoSuperblob
    /\ signature_data' = <<>>
    /\ binaries' = <<>>
    /\ writer' = NoOutput
    /\ result' = ""
    /\ rewrites' = <<>>
    /\ UNCHANGED settings

Next ==
    \/ Estimate
    \/ Rewrite1
    \/ Parse
    \/ CreateSuperblob
    \/ SizeCheck
    \/ Rewrite2
    \/ WriteOutput
    \/ Resign

Spec == Init /\ [][Next]_vars


\* ---------------------------------------------------------------------
\* Properties
\* ---------------------------------------------------------------------
\* The input, the signature and the output of the rewrite that has just
\* succeeded: the first rewrite of the slice, or the second one.
AfterRewrite1 == pc = "parse"
AfterRewrite2 ==
    \/ pc = "write"
    \/ pc = "estimate" /\ index > 1
    \/ pc = "done" /\ result = "Ok"

LastBinary == binaries[Len(binaries)]

CountCommands(macho, kind) ==
    Cardinality({i \in 1..Len(macho.load_commands) :
                    macho.load_commands[i].command.cmd = kind})

\* The output of a rewrite is aligned: it parses, its signature command
\* points at the signature bytes, which start on a multiple of 16 that is
\* the input's code limit plus 0..15 NUL bytes, and the __LINKEDIT vmsize
\* is a multiple of 16384 not under the filesize.
AlignedOutput(in, sig, out) ==
    LET parsed == ParseMachO(out)
    IN /\ parsed.ok
       /\ LET command == code_signature_load_command(parsed.value)
              linkedit == LinkeditSegment(parsed.value)
              limit == code_limit_binary_offset(in).value
          IN /\ command.cmd = LC_CODE_SIGNATURE
             /\ command.dataoff % SIG_ALIGN = 0
             /\ command.dataoff - limit \in 0..(SIG_ALIGN - 1)
             /\ SliceBuf(out, limit, command.dataoff) = Zeros(command.dataoff - limit)
             /\ SliceBuf(out, command.dataoff, BufLen(out)) = sig
             /\ linkedit.vmsize % LINKEDIT_VM_ALIGN = 0
             /\ linkedit.vmsize >= linkedit.filesize

\* C1: every successful create_macho_with_signature yields an output whose
\* signature starts at a file offset that is a multiple of 16 (the code
\* limit rounded up by 0..15 zero bytes), whose __LINKEDIT vmsize is a
\* multiple of 16384 and is at least the __LINKEDIT filesize.
C1_Alignment ==
    /\ AfterRewrite1 =>
         AlignedOutput(original_macho, Zeros(signature_len), intermediate_macho_data)
    /\ AfterRewrite2 =>
         AlignedOutput(intermediate_macho, signature_data, LastBinary)

\* A first rewrite that had to pad: the input's code limit is off the grid.
C1_Witness ==
    /\ AfterRewrite1
    /\ code_limit_binary_offset(original_macho).value % SIG_ALIGN # 0

\* The signature command of the output is the only one and ends where
\* __LINKEDIT ends, and __LINKEDIT is the prefix, the padding and the
\* signature.
SignatureIsLinkeditTail(in, sig, out) ==
    LET parsed == ParseMachO(out)
    IN /\ parsed.ok
       /\ CountCommands(parsed.value, LC_CODE_SIGNATURE) = 1
       /\ LET command == code_signature_load_command(parsed.value)
              linkedit == LinkeditSegment(parsed.value)
              limit == code_limit_binary_offset(in).value
          IN /\ command.dataoff + command.datasize
                    = linkedit.fileoff + linkedit.filesize
             /\ linkedit.filesize
                    = BufLen(linkedit_data_before_signature(in).value)
                      + (command.dataoff - limit) + BufLen(sig)
             /\ linkedit.fileoff + linkedit.filesize = BufLen(out)

\* C2: after signing a slice that had at most one LC_CODE_SIGNATURE, the
\* output has exactly one LC_CODE_SIGNATURE, its dataoff + datasize equals
\* __LINKEDIT.fileoff + __LINKEDIT.filesize, and that filesize is the
\* prefix length + the padding length + the signature length.
C2_LoadCommand ==
    /\ (AfterRewrite1 /\ CountCommands(original_macho, LC_CODE_SIGNATURE) <= 1) =>
         SignatureIsLinkeditTail(original_macho, Zeros(signature_len),
                                 intermediate_macho_data)
    /\ (AfterRewrite2 /\ CountCommands(intermediate_macho, LC_CODE_SIGNATURE) <= 1) =>
         SignatureIsLinkeditTail(intermediate_macho, signature_data, LastBinary)

\* A slice that came with a signature of another size has been signed.
C2_Witness ==
    /\ AfterRewrite2
    /\ round = 0
    /\ CountCommands(machos[Len(binaries)], LC_CODE_SIGNATURE) = 1
    /\ code_signature_load_command(machos[Len(binaries)]).datasize # signature_len


LastRewrite == rewrites[Len(rewrites)]

\* The size check of the current slice has been made.
SizeChecked ==
    /\ pc \in {"rewrite2", "done"}
    /\ superblob.ok
    /\ rewrites # <<>>
    /\ LastRewrite = [slice |-> index, pass |-> 1, ok |-> TRUE]

\* C3: a SuperBlob longer than the reservation fails the call with
\* SignatureDataTooLarge and the slice is not rewritten a second time;
\* otherwise the second rewrite gets the SuperBlob right-padded with NULs
\* to exactly the reservation, and the final LC_CODE_SIGNATURE datasize is
\* the reservation.
C3_SizeCheck ==
    /\ (SizeChecked /\ BufLen(superblob.value) > signature_len) =>
         /\ pc = "done"
         /\ result = "SignatureDataTooLarge"
    /\ result = "SignatureDataTooLarge" =>
         /\ superblob.ok
         /\ BufLen(superblob.value) > signature_len
         /\ \A i \in 1..Len(rewrites) :
               ~(rewrites[i].slice = index /\ rewrites[i].pass = 2)
    /\ pc = "rewrite2" =>
         LET real == BufLen(superblob.value)
         IN /\ real <= signature_len
            /\ BufLen(signature_data) = signature_len
            /\ SliceBuf(signature_data, 0, real) = superblob.value
            /\ SliceBuf(signature_data, real, signature_len)
                  = Zeros(signature_len - real)
    /\ AfterRewrite2 =>
         /\ ParseMachO(LastBinary).ok
         /\ code_signature_load_command(ParseMachO(LastBinary).value).datasize
               = signature_len

\* The second slice of a universal binary overflows its reservation after
\* the first one was padded and rewritten.
C3_Witness ==
    /\ result = "SignatureDataTooLarge"
    /\ Len(binaries) = 1
    /\ BufLen(binaries[1]) > 0

SegmentTable(macho) ==
    LET segs == Segments(macho)
    IN [i \in 1..Len(segs) |->
          <<segs[i].name, segs[i].fileoff, segs[i].filesize, segs[i].vmsize>>]

\* C5: for every slice signed successfully the intermediate Mach-O parses
\* and reports the same segments (name, fileoff, filesize, vmsize) and the
\* same code limit as the output of the second rewrite.
C5_RoundTrip ==
    AfterRewrite2 =>
        /\ ParseMachO(intermediate_macho_data) = Ok(intermediate_macho)
        /\ ParseMachO(LastBinary).ok
        /\ SegmentTable(ParseMachO(LastBinary).value) = SegmentTable(intermediate_macho)
        /\ code_limit_binary_offset(ParseMachO(LastBinary).value)
              = code_limit_binary_offset(intermediate_macho)

\* A slice is signed whose SuperBlob is shorter than the reservation and
\* whose first rewrite had to pad.
C5_Witness ==
    /\ AfterRewrite2
    /\ BufLen(superblob.value) < signature_len
    /\ code_limit_binary_offset(machos[Len(binaries)]).value % SIG_ALIGN # 0


\* The settings slice i is signed with.
SettingsOf(i) == as_universal_macho_settings(settings, i, machos[i].header.cputype)

\* Slice i is signed without a binary identifier.
Omitted(i) == ~SettingsOf(i).identifier.some

\* The designated requirement of slice i is derived from the certificate.
Derives(i) ==
    /\ SettingsOf(i).signing_key
    /\ SettingsOf(i).designated_requirement.mode = "Auto"

RewritesOf(i) == {k \in 1..Len(rewrites) : rewrites[k].slice = i}

\* C4 as claimed: the NoIdentifier failure occurs before any rewrite.
C4_Original == result = "NoIdentifier" => rewrites = <<>>

\* C4, amended: a slice without identifier is never rewritten a second
\* time, the call does not succeed and writes nothing; the call fails with
\* NoIdentifier unless an earlier step fails; NoIdentifier is reported
\* before any rewrite of the slice only when the designated requirement is
\* derived (identity, Auto), otherwise by create_code_directory right
\* after the first rewrite of the slice.
C4_NoIdentifier ==
    /\ \A i \in 1..Len(machos) : Omitted(i) =>
          /\ \A k \in RewritesOf(i) : rewrites[k].pass = 1
          /\ result # "Ok"
          /\ writer = NoOutput
    /\ result = "NoIdentifier" =>
          /\ Omitted(index)
          /\ IF Derives(index) THEN RewritesOf(index) = {}
             ELSE LastRewrite = [slice |-> index, pass |-> 1, ok |-> TRUE]
    /\ (pc = "done" /\ index <= Len(machos) /\ Omitted(index)) =>
          IF Derives(index)
          THEN result \in {"NoIdentifier", "MissingLinkedit"} /\ RewritesOf(index) = {}
          ELSE \/ result = "NoIdentifier"
               \/ RewritesOf(index) = {}
               \/ ~LastRewrite.ok

\* Ad-hoc signing without identifier: NoIdentifier after one rewrite.
C4_Witness ==
    /\ result = "NoIdentifier"
    /\ Len(rewrites) = 1
    /\ ~settings.signing_key


\* Where the signature of a signed slice starts.
SignatureStart(slice) == code_signature_load_command(ParseMachO(slice).value).dataoff

NonSignatureBytes(slice) == SliceBuf(slice, 0, SignatureStart(slice))
SignatureBytes(slice) == SliceBuf(slice, SignatureStart(slice), BufLen(slice))

\* The output has been signed again with the same settings.
Resigned == round >= 1 /\ pc = "done" /\ result = "Ok"

\* C6: signing the output of a signing again with identical settings gives
\* an output whose non-signature bytes are the input's, and whose
\* signature bytes are the input's (exactly so for ad-hoc signing).
C6_Idempotent ==
    Resigned =>
        /\ Len(writer.slices) = Len(previous.slices)
        /\ \A i \in 1..Len(writer.slices) :
              /\ NonSignatureBytes(writer.slices[i]) = NonSignatureBytes(previous.slices[i])
              /\ ~settings.signing_key =>
                    SignatureBytes(writer.slices[i]) = SignatureBytes(previous.slices[i])

\* The same for the images whose first non-empty segment starts at file
\* offset 0 or after the load commands.
C6_IdempotentAtZero ==
    (Resigned /\ \A i \in 1..Len(machos) :
                    \A k \in 1..Len(Segments(machos[i])) :
                        Segments(machos[i])[k].name = "__TEXT"
                            => Segments(machos[i])[k].fileoff = 0) =>
        /\ Len(writer.slices) = Len(previous.slices)
        /\ \A i \in 1..Len(writer.slices) :
              /\ NonSignatureBytes(writer.slices[i]) = NonSignatureBytes(previous.slices[i])
              /\ ~settings.signing_key =>
                    SignatureBytes(writer.slices[i]) = SignatureBytes(previous.slices[i])


\* What a SuperBlob is made of.
Content(sb) == sb.value[1].id

\* The bytes of the code digests of all its code directories.
DigestsLen(sb) ==
    LET cds == Content(sb).code_directories
    IN SumSeq([i \in 1..Len(cds) |->
                 CeilDiv(cds[i].code_limit, cds[i].page_size) * cds[i].digest_size])

\* The bytes of its special blobs.
BlobsLen(sb) ==
    LET blobs == Content(sb).blobs
    IN SumSeq([i \in 1..Len(blobs) |-> blobs[i].len])

\* Everything else: the SuperBlob header and index, the code directories
\* without their code digests, the Signature blob.
RestLen(sb) == BufLen(sb.value) - DigestsLen(sb) - BlobsLen(sb)

\* The fixed allowances of the estimate for everything else.
Allowance(s) ==
    CD_COMMON_SIZE * (1 + Len(s.extra_digests)) + CMS_FIXED_SIZE
    + SumSeq(s.certificate_chain) + (IF s.time_stamp_url THEN TST_SIZE ELSE 0)

EstimateSum(macho, s) ==
    LET pages == CeilDiv(code_limit_binary_offset(macho).value, 4096)
        digests == <<s.digest_type>> \o s.extra_digests
        blobs == create_special_blobs(s, TRUE).value
    IN 1024 * Len(digests)
       + SumSeq([i \in 1..Len(digests) |-> pages * hash_len(digests[i])])
       + SumSeq([i \in 1..Len(blobs) |-> blobs[i].len])
       + 4096
       + SumSeq(s.certificate_chain)
       + (IF s.time_stamp_url THEN 8192 ELSE 0)

\* C8 as claimed: the estimate is the least multiple of 1024 that is
\* greater than or equal to the sum.
C8_Original ==
    pc = "rewrite1" =>
        /\ signature_len % 1024 = 0
        /\ signature_len >= EstimateSum(original_macho, SliceSettings)
        /\ signature_len - 1024 < EstimateSum(original_macho, SliceSettings)

\* C8, amended: the estimate is the least multiple of 1024 that is
\* strictly greater than the sum (a sum that is a multiple of 1024 gets
\* 1024 more).
C8_Estimate ==
    pc = "rewrite1" =>
        /\ signature_len % 1024 = 0
        /\ signature_len > EstimateSum(original_macho, SliceSettings)
        /\ signature_len - 1024 <= EstimateSum(original_macho, SliceSettings)

\* An estimate of a sum that is a multiple of 1024.
C8_Witness ==
    /\ pc = "rewrite1"
    /\ EstimateSum(original_macho, SliceSettings) % 1024 = 0
    /\ signature_len = EstimateSum(original_macho, SliceSettings) + 1024


\* The code directories create_superblob has just made for the slice.
CodeDirectories ==
    IF pc = "size_check" THEN {superblob.code_directories[i] :
                                  i \in 1..Len(superblob.code_directories)}
    ELSE {}

\* C9: the flags of every code directory are settings.flags with ADHOC
\* forced on without a signing identity and cleared with one, and
\* LINKER_SIGNED always cleared; every other bit is carried over.
C9_Flags ==
    \A cd \in CodeDirectories :
        /\ ADHOC \in cd.flags <=> ~SliceSettings.signing_key
        /\ LINKER_SIGNED \notin cd.flags
        /\ cd.flags \ {ADHOC, LINKER_SIGNED}
              = SliceSettings.flags \ {ADHOC, LINKER_SIGNED}

\* A code directory made with a signing key from settings that flag ADHOC,
\* LINKER_SIGNED and more.
C9_Witness ==
    /\ CodeDirectories # {}
    /\ SliceSettings.signing_key
    /\ {ADHOC, LINKER_SIGNED, HARD} \subseteq SliceSettings.flags

\* C10 as claimed: none of the three exec segment fields is populated for
\* an image that is not an executable.
C10_Original ==
    \A cd \in CodeDirectories :
        ~is_executable(intermediate_macho) =>
            /\ ~cd.exec_seg_base.some
            /\ ~cd.exec_seg_limit.some
            /\ ~cd.exec_seg_flags.some

\* C10, amended: exec_seg_flags is present only if the file type is
\* MH_EXECUTE (and then always); exec_seg_base and exec_seg_limit are
\* populated from the executable segment for every image, executable or
\* not.
C10_ExecSegment ==
    \A cd \in CodeDirectories :
        /\ cd.exec_seg_flags.some <=> is_executable(intermediate_macho)
        /\ cd.exec_seg_base = Some(executable_segment_boundary(intermediate_macho).value[1])
        /\ cd.exec_seg_limit = Some(executable_segment_boundary(intermediate_macho).value[2])

\* Code directories of a dylib signed with an entitlements plist.
C10_Witness ==
    /\ CodeDirectories # {}
    /\ ~is_executable(intermediate_macho)
    /\ SliceSettings.entitlements_plist.some

\* The slots of the special blobs in the order create_special_blobs pushes
\* them.
SpecialSlotOrder ==
    <<"RequirementSet", "Entitlements", "EntitlementsDer", "LaunchConstraintsSelf",
      "LaunchConstraintsParent", "LaunchConstraintsResponsibleProcess",
      "LibraryConstraints">>

\* Whether the settings ask for the blob of a slot.
SlotWanted(s, executable, slot) ==
    CASE slot = "RequirementSet" -> TRUE
      [] slot = "Entitlements" -> s.entitlements_xml.some
      [] slot = "EntitlementsDer" -> s.entitlements_plist.some /\ executable
      [] slot = "LaunchConstraintsSelf" -> s.launch_constraints_self.some
      [] slot = "LaunchConstraintsParent" -> s.launch_constraints_parent.some
      [] slot = "LaunchConstraintsResponsibleProcess" ->
            s.launch_constraints_responsible.some
      [] slot = "LibraryConstraints" -> s.library_constraints.some

SlotsOf(blobs) == [i \in 1..Len(blobs) |-> blobs[i].slot]

WantedSlots(s, executable) ==
    SelectSeq(SpecialSlotOrder, LAMBDA slot : SlotWanted(s, executable, slot))

\* C11: create_special_blobs emits, in this order and each at most once,
\* RequirementSet always (even without requirements), Entitlements iff
\* entitlements_xml is set, EntitlementsDer iff entitlements_plist is set
\* and the binary is an executable, each of the four constraints blobs iff
\* its setting is set, and never CodeDirectory or Signature.  Checked on
\* the blobs create_superblob has added for the slice, and on what the
\* function returns for the slice's settings either way is_executable is.
C11_SpecialBlobs ==
    pc = "size_check" =>
        /\ SlotsOf(Content(superblob).blobs)
              = WantedSlots(SliceSettings, is_executable(intermediate_macho))
        /\ \A executable \in BOOLEAN :
              /\ create_special_blobs(SliceSettings, executable).ok
              /\ SlotsOf(create_special_blobs(SliceSettings, executable).value)
                    = WantedSlots(SliceSettings, executable)
        /\ Content(superblob).blobs[1].slot = "RequirementSet"

\* The blobs of a dylib signed ad hoc with entitlements and all four
\* constraints: no requirements, no EntitlementsDer.
C11_Witness ==
    /\ pc = "size_check"
    /\ ~is_executable(intermediate_macho)
    /\ SliceSettings.entitlements_plist.some
    /\ SliceSettings.library_constraints.some
    /\ Content(superblob).blobs[1].what = <<>>
    /\ Len(Content(superblob).blobs) = 6

\* out is what the two rewrites make of the slice macho for the signature
\* out carries.
SignedFrom(macho, out) ==
    LET Second(first, sig) ==
            /\ first.ok
            /\ ParseMachO(first.value).ok
            /\ create_macho_with_signature(ParseMachO(first.value).value, sig) = Ok(out)
        First(sig) ==
            Second(create_macho_with_signature(macho, Zeros(BufLen(sig))), sig)
    IN /\ ParseMachO(out).ok
       /\ First(SignatureBytes(out))

\* C12: the slices are signed one after the other in input order (first
\* and second rewrite of slice 1, then of slice 2, ...), the signed slices
\* are kept in that order, and once all are signed the output is a
\* universal container of them in that order when there is more than one,
\* and the bytes of the single signed slice, unframed, when there is one.
C12_Order ==
    /\ \A k \in 1..Len(rewrites) :
          /\ rewrites[k].slice = (k + 1) \div 2
          /\ rewrites[k].pass = 2 - (k % 2)
    /\ Len(binaries) <= Len(machos)
    /\ \A i \in 1..Len(binaries) : SignedFrom(machos[i], binaries[i])
    /\ writer # NoOutput =>
          /\ result = "Ok"
          /\ Len(binaries) = Len(machos)
          /\ writer.slices = binaries
          /\ writer.fat <=> Len(machos) > 1
    /\ (pc = "done" /\ result = "Ok") => writer # NoOutput

\* A universal binary of two different slices has been written.
C12_Witness ==
    /\ pc = "done"
    /\ result = "Ok"
    /\ writer.fat
    /\ Len(machos) = 2
    /\ machos[1] # machos[2]

\* Where the rewriter's cursor is after the header and the load commands.
CursorAfterCommands(macho) ==
    HeaderSize(macho.header.bits) + NewHeader(macho).sizeofcmds

\* The segments the loop does not pass over, in file order: __PAGEZERO and
\* the empty segments the cursor is past are passed over.
WrittenSegments(macho) ==
    SelectSeq(segments_by_file_offset(macho),
              LAMBDA seg : /\ seg.name # SEG_PAGEZERO
                           /\ ~(seg.data = <<>>
                                /\ seg.fileoff < CursorAfterCommands(macho)))

\* The first non-empty segment begins before the cursor and is not
\* __LINKEDIT.
FirstSegmentOverlaps(macho) ==
    /\ check_signing_capability(macho).ok
    /\ WrittenSegments(macho) # <<>>
    /\ WrittenSegments(macho)[1].name # SEG_LINKEDIT
    /\ WrittenSegments(macho)[1].fileoff < CursorAfterCommands(macho)

\* The output carries the source bytes of the first segment beyond the
\* cursor at their file offsets.
OverlapCopied(macho, out) ==
    LET Same(from, to) ==
            SliceBuf(out, from, to) = SliceBuf(macho.data, from, to)
    IN Same(CursorAfterCommands(macho),
            WrittenSegments(macho)[1].fileoff + WrittenSegments(macho)[1].filesize)

\* C13: when the first non-empty segment begins before the write cursor,
\* the rewriter writes only the segment bytes beyond the cursor, whatever
\* the segment's fileoff: the bytes written are the source bytes at file
\* offsets [cursor, fileoff + filesize), so that the output has them at
\* those offsets, and the rewrite does not abort.
C13_Overlap ==
    /\ (AfterRewrite1 /\ FirstSegmentOverlaps(original_macho)) =>
          OverlapCopied(original_macho, intermediate_macho_data)
    /\ (pc = "done" /\ result = "panic" /\ rewrites # <<>>) =>
          ~FirstSegmentOverlaps(machos[LastRewrite.slice])

\* The same for a first segment at file offset 0 only.
C13_OverlapAtZero ==
    (AfterRewrite1 /\ FirstSegmentOverlaps(original_macho)
     /\ WrittenSegments(original_macho)[1].fileoff = 0) =>
        OverlapCopied(original_macho, intermediate_macho_data)

Unsigned(macho) == code_signature_load_command(macho).cmd = "none"

\* The header of the output against the commands in it: the counts are the
\* input's, one command and its 16 bytes more iff the input has no
\* signature command; the commands of the input follow the header in
\* their order and sizes, the new signature command comes after them, and
\* nothing the rewriter wrote as a command comes after the ncmds commands
\* and sizeofcmds bytes the header announces.
HeaderConsistent(in, out) ==
    LET Commands(header, lcs, n) ==
            /\ header.ncmds = in.header.ncmds + (IF Unsigned(in) THEN 1 ELSE 0)
            /\ header.sizeofcmds
                  = in.header.sizeofcmds
                    + (IF Unsigned(in) THEN SIZEOF_LINKEDIT_DATA_COMMAND ELSE 0)
            /\ Len(lcs) = header.ncmds
            /\ Len(lcs) = n + (IF Unsigned(in) THEN 1 ELSE 0)
            /\ \A i \in 1..n :
                  /\ lcs[i].offset = in.load_commands[i].offset
                  /\ lcs[i].command.cmd = in.load_commands[i].command.cmd
                  /\ lcs[i].command.cmdsize = in.load_commands[i].command.cmdsize
            /\ Unsigned(in) =>
                  /\ lcs[n + 1].command.cmd = LC_CODE_SIGNATURE
                  /\ lcs[n + 1].offset = HeaderSize(in.header.bits) + in.header.sizeofcmds
            /\ CountCommands([load_commands |-> lcs], LC_CODE_SIGNATURE) = 1
            /\ SumCmdSize([j \in 1..Len(lcs) |-> lcs[j].command]) = header.sizeofcmds
            /\ CommandAt(out, HeaderSize(header.bits) + header.sizeofcmds).cmd = "none"
        Parsed(parsed) ==
            /\ parsed.ok
            /\ Commands(parsed.value.header, parsed.value.load_commands,
                        Len(in.load_commands))
    IN Parsed(ParseMachO(out))

\* C14: the rewriter keeps the header consistent with the load commands it
\* emits: ncmds grows by 1 and sizeofcmds by sizeof(linkedit_data_command)
\* iff the input has no LC_CODE_SIGNATURE, exactly then one new
\* LC_CODE_SIGNATURE is appended after all original commands, the original
\* commands keep their order, and the output's ncmds and sizeofcmds are
\* the number of commands and of load command bytes written.
C14_Header ==
    /\ AfterRewrite1 => HeaderConsistent(original_macho, intermediate_macho_data)
    /\ AfterRewrite2 => HeaderConsistent(intermediate_macho, LastBinary)

\* The first rewrite of an unsigned image of five commands: a sixth one is
\* appended.
C14_Witness ==
    /\ AfterRewrite1
    /\ Unsigned(original_macho)
    /\ Len(original_macho.load_commands) = 5
    /\ ParseMachO(intermediate_macho_data).value.header.ncmds = 6

\* The output has what the rewriter is to leave alone where the input has
\* it: the commands other than the signature command and the __LINKEDIT
\* segment command (a segment command is written as the struct parsed from
\* the input, followed by the input's bytes after the struct), and every
\* byte between the end of the load commands written and the input's code
\* limit, which are the segments other than __LINKEDIT, the gaps between
\* segments and the __LINKEDIT prefix.
FrameKept(in, out) ==
    LET Same(from, to) == SliceBuf(out, from, to) = SliceBuf(in.data, from, to)
        Kept(off, c) ==
            IF c.cmd = LC_CODE_SIGNATURE \/ (IsSegment(c) /\ c.segname = SEG_LINKEDIT)
            THEN TRUE
            ELSE IF IsSegment(c)
            THEN /\ CommandAt(out, off) = c
                 /\ Same(off + StructSize(c), off + c.cmdsize)
            ELSE Same(off, off + c.cmdsize)
    IN /\ \A i \in 1..Len(in.load_commands) :
            Kept(in.load_commands[i].offset, in.load_commands[i].command)
       /\ Same(CursorAfterCommands(in), code_limit_binary_offset(in).value)

\* C15: the rewriter changes nothing but the signature and its
\* bookkeeping: every load command other than LC_CODE_SIGNATURE and the
\* __LINKEDIT segment command is copied, and every byte of every other
\* segment, of every gap between segments and of the __LINKEDIT prefix is
\* in the output at the same file offset with the same value.
C15_Frame ==
    /\ AfterRewrite1 => FrameKept(original_macho, intermediate_macho_data)
    /\ AfterRewrite2 => FrameKept(intermediate_macho, LastBinary)

\* The same for the images whose first non-empty segment starts at file
\* offset 0 or after the load commands.
C15_FrameAtZero ==
    /\ (AfterRewrite1
        /\ (FirstSegmentOverlaps(original_macho)
               => WrittenSegments(original_macho)[1].fileoff = 0)) =>
          FrameKept(original_macho, intermediate_macho_data)
    /\ (AfterRewrite2
        /\ (FirstSegmentOverlaps(intermediate_macho)
               => WrittenSegments(intermediate_macho)[1].fileoff = 0)) =>
          FrameKept(intermediate_macho, LastBinary)

\* The cursor as the segment loop moves it over the segments in file
\* order, from cursor on: whether it comes to a segment that it is past,
\* that is not at file offset 0 and is not the first non-empty one.  The
\* walk ends at __LINKEDIT, the last segment, and at a panic.
RECURSIVE Overruns(_, _, _, _)
Overruns(segs, cursor, wrote, len) ==
    IF segs = <<>> THEN FALSE
    ELSE LET seg == Head(segs)
         IN IF seg.name = SEG_PAGEZERO THEN Overruns(Tail(segs), cursor, wrote, len)
            ELSE IF cursor > seg.fileoff /\ seg.fileoff # 0 /\ wrote THEN TRUE
            ELSE IF seg.name = SEG_LINKEDIT THEN FALSE
            ELSE IF cursor < seg.fileoff
            THEN IF seg.fileoff > len THEN FALSE
                 ELSE Overruns(Tail(segs), seg.fileoff + seg.filesize, TRUE, len)
            ELSE IF cursor = seg.fileoff
            THEN Overruns(Tail(segs), seg.fileoff + seg.filesize, TRUE, len)
            ELSE IF seg.filesize = 0 THEN Overruns(Tail(segs), cursor, wrote, len)
            ELSE IF cursor > seg.filesize THEN FALSE
            ELSE Overruns(Tail(segs), seg.filesize, TRUE, len)

\* The rewriter gets to the segment loop and overruns a segment.
Overrun(macho) ==
    /\ check_signing_capability(macho).ok
    /\ Overruns(segments_by_file_offset(macho), CursorAfterCommands(macho), FALSE,
                BufLen(macho.data))

\* What the rewrite was given.
RewriteInput(rewrite) ==
    IF rewrite.pass = 1 THEN machos[rewrite.slice] ELSE intermediate_macho

\* C16: while emitting segments in file offset order (__PAGEZERO skipped),
\* if the cursor is already past a segment's declared fileoff and the
\* segment is neither at fileoff 0 nor the first non-empty segment, the
\* rewriter fails with MachOWrite and returns no output buffer: no rewrite
\* of such an image yields an output.
C16_Overrun ==
    /\ AfterRewrite1 => ~Overrun(original_macho)
    /\ AfterRewrite2 => ~Overrun(intermediate_macho)
    /\ (pc = "done" /\ rewrites # <<>> /\ Overrun(RewriteInput(LastRewrite))) =>
          /\ ~LastRewrite.ok
          /\ result = "MachOWrite"
    /\ result = "MachOWrite" =>
          /\ ~LastRewrite.ok
          /\ Len(binaries) < LastRewrite.slice
          /\ writer = NoOutput

\* The second slice of a universal binary has a __DATA that starts inside
\* __TEXT: the call fails after the first slice was signed.
C16_Witness ==
    /\ result = "MachOWrite"
    /\ LastRewrite.slice = 2
    /\ Len(binaries) = 1
    /\ Overrun(machos[2])

\* The builder steps of a create_superblob that goes through, in order.
BuilderSteps(s, executable) ==
    LET slots == WantedSlots(s, executable)
    IN [i \in 1..Len(slots) |-> <<"add_blob", slots[i]>>]
       \o << <<"add_code_directory", "CodeDirectory">> >>
       \o [i \in 1..Len(s.extra_digests) |-> <<"add_alternative_code_directory", "alt">>]
       \o << <<IF s.signing_key THEN "create_cms_signature"
               ELSE "create_empty_cms_signature", "">>,
             <<"create_superblob", "">> >>

IsPrefix(p, q) == Len(p) <= Len(q) /\ SubSeq(q, 1, Len(p)) = p

\* C17: create_superblob performs its builder steps in a fixed order:
\* every special blob first, then the primary code directory (digest =
\* settings.digest_type), then one alternative code directory for every
\* entry of extra_digests in their order, all of the same intermediate
\* image and code limit, then the Signature step, create_cms_signature iff
\* there is a signing identity and create_empty_cms_signature otherwise,
\* and only then the SuperBlob is finalized.  A call that fails has made a
\* prefix of these steps.
C17_BuilderOrder ==
    /\ pc = "size_check" =>
          /\ superblob.log
                = BuilderSteps(SliceSettings, is_executable(intermediate_macho))
          /\ Len(superblob.code_directories) = 1 + Len(SliceSettings.extra_digests)
          /\ superblob.code_directories[1].digest_type = SliceSettings.digest_type
          /\ \A i \in 1..Len(SliceSettings.extra_digests) :
                superblob.code_directories[i + 1].digest_type
                    = SliceSettings.extra_digests[i]
          /\ \A i \in 1..Len(superblob.code_directories) :
                /\ superblob.code_directories[i].code_limit
                      = code_limit_binary_offset(intermediate_macho).value
                /\ superblob.code_directories[i].code_digests
                      = SliceBuf(intermediate_macho_data, 0,
                                 code_limit_binary_offset(intermediate_macho).value)
          /\ Content(superblob).code_directories = superblob.code_directories
    /\ (pc = "done" /\ ~superblob.ok /\ superblob.log # <<>>
        /\ index <= Len(machos)) =>
          /\ IsPrefix(superblob.log,
                      BuilderSteps(SliceSettings, is_executable(intermediate_macho)))
          /\ superblob.log[Len(superblob.log)][1] # "create_superblob"

\* A SuperBlob made with a signing key, two extra digests and entitlements.
C17_Witness ==
    /\ pc = "size_check"
    /\ SliceSettings.signing_key
    /\ SliceSettings.extra_digests = <<"Sha1", "Sha512">>
    /\ SliceSettings.entitlements_xml.some
    /\ Len(superblob.log) = 7

\* major.minor.patch as the code directory holds it.
EncodedVersion(v) == (v[1] * 65536) + (v[2] * 256) + v[3]

\* The runtime field by the precedence: the settings' version, else the
\* SDK version of a known targeting when RUNTIME is flagged, else absent.
RuntimeByPrecedence(s, flags, macho) ==
    IF s.runtime_version.some THEN Some(EncodedVersion(s.runtime_version.v))
    ELSE IF RUNTIME \in flags /\ find_targeting(macho).known
    THEN Some(EncodedVersion(find_targeting(macho).sdk_version))
    ELSE None

\* C18: the runtime version of the code directory follows a strict
\* precedence: settings.runtime_version if set (RUNTIME flagged or not);
\* otherwise the target SDK version if the effective flags contain RUNTIME
\* and the targeting is known; otherwise absent.  RUNTIME without a
\* derivable version is not an error: create_code_directory succeeds with
\* the field absent.
C18_Runtime ==
    /\ \A cd \in CodeDirectories :
          cd.runtime = RuntimeByPrecedence(SliceSettings, cd.flags, intermediate_macho)
    /\ (pc = "superblob" /\ SliceSettings.identifier.some) =>
          /\ create_code_directory(SliceSettings, intermediate_macho).ok
          /\ create_code_directory(SliceSettings, intermediate_macho).value.runtime
                = RuntimeByPrecedence(SliceSettings,
                                      SliceSettings.flags \ {LINKER_SIGNED},
                                      intermediate_macho)

\* A code directory of an image without targeting, RUNTIME flagged and no
\* version in the settings: made, with no runtime version.
C18_Witness ==
    /\ pc = "size_check"
    /\ RUNTIME \in SliceSettings.flags
    /\ ~SliceSettings.runtime_version.some
    /\ ~find_targeting(intermediate_macho).known
    /\ \A cd \in CodeDirectories : RUNTIME \in cd.flags /\ ~cd.runtime.some

\* The final slice is the digested intermediate image outside the
\* signature reservation: the second rewrite adds no command and no
\* padding, the signature starts at the intermediate's code limit, and
\* the bytes before it are the intermediate's.
ShipsDigested(intermediate, final) ==
    LET Same(limit, parsed) ==
            /\ parsed.ok
            /\ limit % SIG_ALIGN = 0
            /\ parsed.value.header.ncmds = intermediate.header.ncmds
            /\ parsed.value.header.sizeofcmds = intermediate.header.sizeofcmds
            /\ code_signature_load_command(parsed.value).dataoff = limit
            /\ BufLen(final) = BufLen(intermediate.data)
            /\ SliceBuf(final, 0, limit) = SliceBuf(intermediate.data, 0, limit)
    IN Same(code_limit_binary_offset(intermediate).value, ParseMachO(final))

\* C19: the bytes the code directory hashes are the bytes that ship: for
\* every slice signed successfully the second rewrite adds no load command
\* and no padding, so the bytes [0, signature offset) of the final slice
\* are the bytes [0, code limit) of the intermediate image that was
\* digested, and the two differ only inside the signature reservation.
C19_Digested ==
    AfterRewrite2 =>
        /\ intermediate_macho.data = intermediate_macho_data
        /\ ShipsDigested(intermediate_macho, LastBinary)
        /\ \A cd \in {superblob.code_directories[i] :
                        i \in 1..Len(superblob.code_directories)} :
              cd.code_digests = SliceBuf(LastBinary, 0, SignatureStart(LastBinary))

\* The same for the images whose first non-empty segment starts at file
\* offset 0 or after the load commands.
C19_DigestedAtZero ==
    (AfterRewrite2
     /\ (FirstSegmentOverlaps(intermediate_macho)
            => WrittenSegments(intermediate_macho)[1].fileoff = 0)) =>
        /\ intermediate_macho.data = intermediate_macho_data
        /\ ShipsDigested(intermediate_macho, LastBinary)
        /\ \A cd \in {superblob.code_directories[i] :
                        i \in 1..Len(superblob.code_directories)} :
              cd.code_digests = SliceBuf(LastBinary, 0, SignatureStart(LastBinary))

\* The errors write_signed_binary returns from the loop over the slices.
LoopErrors ==
    {"NoIdentifier", "MissingLinkedit", "UnsupportedBinary", "MachOWrite",
     "InvalidBinary", "ParseError", "SignatureBuilder", "CmsError",
     "SignatureDataTooLarge"}

\* Slice i has been rewritten twice.
Signed(i) ==
    /\ \E k \in RewritesOf(i) : rewrites[k].pass = 1 /\ rewrites[k].ok
    /\ \E k \in RewritesOf(i) : rewrites[k].pass = 2 /\ rewrites[k].ok

\* C20: write_signed_binary writes to the caller's writer only after every
\* slice has been signed: if the estimate, either rewrite, the parse of
\* the intermediate image, the SuperBlob or the size check fails for any
\* slice, a later slice of a universal binary included, the call returns
\* that error and nothing has been written.
C20_WriteLast ==
    /\ writer # NoOutput =>
          /\ pc = "done"
          /\ result = "Ok"
          /\ \A i \in 1..Len(machos) : Signed(i)
    /\ pc # "done" => writer = NoOutput
    /\ (pc = "done" /\ result # "Ok") =>
          /\ writer = NoOutput
          /\ result \in LoopErrors \cup {"panic"}
          /\ index <= Len(machos)
          /\ ~Signed(index)

\* The CMS signature of the second slice of a universal binary fails
\* after the first slice was signed: nothing is written.
C20_Witness ==
    /\ pc = "done"
    /\ result = "CmsError"
    /\ Len(machos) = 2
    /\ Len(binaries) = 1
    /\ Signed(1)
    /\ writer = NoOutput

\* p is q with some of its elements left out.
RECURSIVE IsSubSequence(_, _)
IsSubSequence(p, q) ==
    IF p = <<>> THEN TRUE
    ELSE IF q = <<>> THEN FALSE
    ELSE IF Head(p) = Head(q) THEN IsSubSequence(Tail(p), Tail(q))
    ELSE IsSubSequence(p, Tail(q))

\* No slot occurs twice.
DistinctSlots(blobs) ==
    \A i, j \in 1..Len(blobs) : blobs[i].slot = blobs[j].slot => i = j

\* The serialized length of the blobs.
SpecialBlobsLen(blobs) == SumSeq([i \in 1..Len(blobs) |-> blobs[i].len])

\* What create_special_blobs returns for the slice is counted by the
\* estimate and is accepted by add_blob.
Counted(blobs, estimated) ==
    /\ blobs.ok = estimated.ok
    /\ blobs.ok =>
          /\ IsSubSequence(blobs.value, estimated.value)
          /\ SpecialBlobsLen(blobs.value) <= SpecialBlobsLen(estimated.value)
          /\ DistinctSlots(blobs.value)
          /\ AddBlobs(<<>>, blobs.value) = Ok(blobs.value)

\* C21: the size estimate never under-counts the special blobs: for the
\* settings of every slice and both values of is_executable, the list
\* create_special_blobs returns is a sub-sequence of the list it returns
\* for an executable, which is the one estimate_embedded_signature_size
\* counts, and its slots are pairwise distinct, so that the duplicate-slot
\* rejection of add_blob is never triggered by create_superblob.
C21_Counted ==
    /\ index <= Len(machos) =>
          \A executable \in BOOLEAN :
              Counted(create_special_blobs(SliceSettings, executable),
                      EstimateBlobs(SliceSettings))
    /\ pc = "size_check" =>
          /\ IsSubSequence(Content(superblob).blobs,
                           EstimateBlobs(SliceSettings).value)
          /\ DistinctSlots(Content(superblob).blobs)
    /\ result # "SignatureBuilder"

\* The SuperBlob of a library whose settings carry an entitlements plist:
\* the estimate counted one blob more than create_superblob added.
C21_Witness ==
    /\ pc = "size_check"
    /\ ~is_executable(intermediate_macho)
    /\ Len(EstimateBlobs(SliceSettings).value) = Len(Content(superblob).blobs) + 1
    /\ Len(Content(superblob).blobs) >= 2
    /\ IsSubSequence(Content(superblob).blobs, EstimateBlobs(SliceSettings).value)


=============================================================================
